---------------------------- MODULE Spec2Model ----------------------------
(***************************************************************************)
(* Whitted-style sphere ray tracer (TraceRay / ComputeLighting /           *)
(* IntersectRaySphere) and its fork-join frame driver (RenderSection,      *)
(* WinMain), modelled from src/unnamed/part_000 and the sequential         *)
(* variant in src/unnamed/part_001.                                        *)
(*                                                                         *)
(* A C++ float is modelled as a fixed-point integer: the float v is the    *)
(* integer v * ONE, every product and quotient is rounded down to a        *)
(* multiple of 1/ONE.  INFINITY is an integer above every finite value the *)
(* scenes below can produce; only comparisons are ever applied to it.      *)
(***************************************************************************)
EXTENDS Integers, Sequences, FiniteSets, TLC

\* ------------------------------------------------------------------------
\* Bounds of the model
\* ------------------------------------------------------------------------
MaxDepth == 2

CANVAS_WIDTH == 4

CANVAS_HEIGHT == 4

MaxThreads == 3

\* Canvas heights and thread counts the band computation is run on.
MaxHeight == 8

MaxBandThreads == 6

\* ------------------------------------------------------------------------
\* float arithmetic (fixed point, scale ONE)
\* ------------------------------------------------------------------------
ONE == 1000

EPSILON == 1

INFINITY == 2000000000

RECURSION_DEPTH == 3

\* a * b for two floats; split so that no intermediate exceeds 31 bits.
FMul(a, b) == (a \div ONE) * b + ((a % ONE) * b) \div ONE

\* a / b for two floats, b # 0.
FDiv(a, b) == IF b > 0 THEN (a * ONE) \div b ELSE ((-a) * ONE) \div (-b)

\* r * r <= x * ONE, evaluated without forming r * r.
SqLeq(r, x) ==
    LET rh == r \div ONE
        rl == r % ONE
        q  == rh * rh * ONE + 2 * rh * rl + (rl * rl) \div ONE
        m  == (rl * rl) % ONE
    IN  q < x \/ (q = x /\ m = 0)

RECURSIVE SqrtSearch(_, _, _)
SqrtSearch(x, lo, hi) ==
    IF lo >= hi THEN lo
    ELSE LET mid == (lo + hi + 1) \div 2
         IN  IF SqLeq(mid, x) THEN SqrtSearch(x, mid, hi)
                              ELSE SqrtSearch(x, lo, mid - 1)

\* std::sqrt of a non-negative float: the largest r with (r/ONE)^2 <= x/ONE.
FSqrt(x) == SqrtSearch(x, 0, 1500000)

RECURSIVE FPow(_, _)
\* std::pow(x, n) for an integer exponent n >= 0.
FPow(x, n) ==
    IF n = 0 THEN ONE
    ELSE IF n % 2 = 0 THEN LET h == FPow(x, n \div 2) IN FMul(h, h)
    ELSE FMul(x, FPow(x, n - 1))

\* ------------------------------------------------------------------------
\* Vector3 operating routines (a Vector3 is <<x, y, z>>)
\* ------------------------------------------------------------------------
DotProduct(v1, v2) == FMul(v1[1], v2[1]) + FMul(v1[2], v2[2]) + FMul(v1[3], v2[3])

Subtract(v1, v2) == <<v1[1] - v2[1], v1[2] - v2[2], v1[3] - v2[3]>>

Length(v) == FSqrt(DotProduct(v, v))

\* Computes k * vec.
Multiply(k, v) == <<FMul(k, v[1]), FMul(k, v[2]), FMul(k, v[3])>>

\* Computes v1 + v2.
Add(v1, v2) == <<v1[1] + v2[1], v1[2] + v2[2], v1[3] + v2[3]>>

\* ------------------------------------------------------------------------
\* Color operating routines (a Color is [b, g, r], unsigned channels)
\* ------------------------------------------------------------------------
\* The product rounded to the nearest integer instead.
ScaleChannel_Rounded(i, ch) == (i * ch + ONE \div 2) \div ONE

\* (unsigned)(i * channel): the float product truncated toward zero.
ScaleChannel(i, ch) == (i * ch) \div ONE

\* Computes i * color.
MultiplyColor(i, c) ==
    [b |-> ScaleChannel(i, c.b), g |-> ScaleChannel(i, c.g), r |-> ScaleChannel(i, c.r)]

\* Computes color1 + color2.
AddColor(c1, c2) == [b |-> c1.b + c2.b, g |-> c1.g + c2.g, r |-> c1.r + c2.r]

\* The min / max macros of windows.h.
min(a, b) == IF a < b THEN a ELSE b

max(a, b) == IF a > b THEN a ELSE b

\* The clamp with its upper limit left out.
Clamp_NoUpper(c) == [b |-> max(0, c.b), g |-> max(0, c.g), r |-> max(0, c.r)]

\* The clamp with the limit 256, one past the largest channel value.
Clamp_Limit256(c) ==
    [b |-> min(256, max(0, c.b)), g |-> min(256, max(0, c.g)), r |-> min(256, max(0, c.r))]

\* Clamps a color to the canonical color range.
Clamp(c) ==
    [b |-> min(255, max(0, c.b)), g |-> min(255, max(0, c.g)), r |-> min(255, max(0, c.r))]

\* ------------------------------------------------------------------------
\* Matrix operating routines
\* ------------------------------------------------------------------------
\* Multiplies a matrix (its three rows line0, line1, line2) and a vector.
MultiplyMV(mat, vec) ==
    <<DotProduct(mat.line0, vec), DotProduct(mat.line1, vec), DotProduct(mat.line2, vec)>>

ReflectRayDirection(ray, normal) ==
    Subtract(Multiply(2 * DotProduct(ray, normal), normal), ray)

CanvasToViewport(canvas_x, canvas_y) ==
    <<FDiv(canvas_x * ONE, CANVAS_WIDTH * ONE),
      FDiv(canvas_y * ONE, CANVAS_HEIGHT * ONE),
      ONE>>

\* ------------------------------------------------------------------------
\* Intersection test
\* ------------------------------------------------------------------------
\* The quadratic solved with k2 = dot(oc, direction), the factor 2 lost.
IntersectRaySphere_HalfK2(origin, direction, sphere) ==
    LET oc == Subtract(origin, sphere.center)
        k1 == DotProduct(direction, direction)
        k2 == DotProduct(oc, direction)
        k3 == DotProduct(oc, oc) - FMul(sphere.radius, sphere.radius)
        discriminant == FMul(k2, k2) - 4 * FMul(k1, k3)
    IN  IF discriminant < 0 \/ k1 = 0 THEN <<INFINITY, INFINITY>>
        ELSE <<FDiv((-k2) + FSqrt(discriminant), 2 * k1),
               FDiv((-k2) - FSqrt(discriminant), 2 * k1)>>

\* Returns the pair <<t1, t2>>.  With k1 = 0 the float quotient is a NaN, for
\* which every comparison made by the callers is false, exactly as for the
\* pair <<INFINITY, INFINITY>>.
IntersectRaySphere(origin, direction, sphere) ==
    LET oc == Subtract(origin, sphere.center)
        k1 == DotProduct(direction, direction)
        k2 == 2 * DotProduct(oc, direction)
        k3 == DotProduct(oc, oc) - FMul(sphere.radius, sphere.radius)
        discriminant == FMul(k2, k2) - 4 * FMul(k1, k3)
    IN  IF discriminant < 0 \/ k1 = 0 THEN <<INFINITY, INFINITY>>
        ELSE <<FDiv((-k2) + FSqrt(discriminant), 2 * k1),
               FDiv((-k2) - FSqrt(discriminant), 2 * k1)>>

\* ------------------------------------------------------------------------
\* Lighting evaluator
\* ------------------------------------------------------------------------
\* A sphere pointer is an index into the sphere collection; 0 is nullptr.
NULLPTR == 0

\* The light vector and the shadow-test bound of a POINT / DIRECTIONAL light.
LightVector(light, point) ==
    IF light.ltype = "POINT" THEN Subtract(light.position, point) ELSE light.position

\* The shadow ray of a POINT light left unbounded.
LightTMax_Unbounded(light) == INFINITY

LightTMax(light) == IF light.ltype = "POINT" THEN ONE ELSE INFINITY

RECURSIVE ShadowLoop(_, _, _, _, _, _)
\* The loop that sets is_shadow, from sphere j on; a found occluder breaks.
ShadowLoop(point, vec_l, t_max, spheres, sphere_tag, j) ==
    IF j > Len(spheres) THEN FALSE
    ELSE IF sphere_tag = j THEN ShadowLoop(point, vec_l, t_max, spheres, sphere_tag, j + 1)
    ELSE LET ts == IntersectRaySphere(point, vec_l, spheres[j])
         IN  IF EPSILON < ts[1] /\ ts[1] < t_max THEN TRUE
             ELSE IF EPSILON < ts[2] /\ ts[2] < t_max THEN TRUE
             ELSE ShadowLoop(point, vec_l, t_max, spheres, sphere_tag, j + 1)

\* The shadow test that takes a root equal to t_max for an occluder.
IsShadow_UpToTMax(point, vec_l, t_max, spheres, sphere_tag) ==
    \E j \in (1..Len(spheres)) \ {sphere_tag} : \E k \in 1..2 :
        LET t == IntersectRaySphere(point, vec_l, spheres[j])[k]
        IN  EPSILON < t /\ t <= t_max

\* is_shadow after the loop over the spheres.
IsShadow(point, vec_l, t_max, spheres, sphere_tag) ==
    ShadowLoop(point, vec_l, t_max, spheres, sphere_tag, 1)

\* The diffuse term added whatever the sign of n_dot_l.
Diffuse_NoGuard(light, normal, vec_l) ==
    LET n_dot_l == DotProduct(normal, vec_l)
    IN  FDiv(FMul(light.intensity, n_dot_l), FMul(Length(normal), Length(vec_l)))

\* Diffuse reflection of one unoccluded light.
Diffuse(light, normal, vec_l) ==
    LET n_dot_l == DotProduct(normal, vec_l)
    IN  IF n_dot_l > 0
        THEN FDiv(FMul(light.intensity, n_dot_l), FMul(Length(normal), Length(vec_l)))
        ELSE 0

\* The specular term guarded by specular != -1: any other exponent is
\* raised, a negative one as the reciprocal power.
Specular_NotMinusOne(light, normal, view, vec_l, specular) ==
    IF specular # -1
    THEN LET vec_r == ReflectRayDirection(vec_l, normal)
             r_dot_v == DotProduct(vec_r, view)
             q == FDiv(r_dot_v, FMul(Length(vec_r), Length(view)))
         IN  IF r_dot_v > 0
             THEN FMul(light.intensity,
                       IF specular >= 0 THEN FPow(q, specular)
                       ELSE FDiv(ONE, max(1, FPow(q, -specular))))
             ELSE 0
    ELSE 0

\* Specular reflection of one unoccluded light.
Specular(light, normal, view, vec_l, specular) ==
    IF specular >= 0
    THEN LET vec_r == ReflectRayDirection(vec_l, normal)
             r_dot_v == DotProduct(vec_r, view)
         IN  IF r_dot_v > 0
             THEN FMul(light.intensity,
                       FPow(FDiv(r_dot_v, FMul(Length(vec_r), Length(view))), specular))
             ELSE 0
    ELSE 0

\* The iteration in which a shadowed light loses its specular term only.
LightStep_ShadowedDiffuse(intensity, light, point, normal, view, spheres, specular, sphere_tag) ==
    IF light.ltype = "AMBIENT" THEN intensity + light.intensity
    ELSE LET vec_l == LightVector(light, point)
             t_max == LightTMax(light)
         IN  IF IsShadow(point, vec_l, t_max, spheres, sphere_tag)
             THEN intensity + Diffuse(light, normal, vec_l)
             ELSE intensity + Diffuse(light, normal, vec_l)
                            + Specular(light, normal, view, vec_l, specular)

\* The iteration that evaluates the specular term inside the diffuse
\* guard n_dot_l > 0.
LightStep_SpecularInsideDiffuse(intensity, light, point, normal, view, spheres, specular, sphere_tag) ==
    IF light.ltype = "AMBIENT" THEN intensity + light.intensity
    ELSE LET vec_l == LightVector(light, point)
             t_max == LightTMax(light)
         IN  IF IsShadow(point, vec_l, t_max, spheres, sphere_tag) THEN intensity
             ELSE IF DotProduct(normal, vec_l) > 0
                  THEN intensity + Diffuse(light, normal, vec_l)
                                 + Specular(light, normal, view, vec_l, specular)
                  ELSE intensity

\* One iteration of the loop over the lights: the new value of intensity.
LightStep(intensity, light, point, normal, view, spheres, specular, sphere_tag) ==
    IF light.ltype = "AMBIENT" THEN intensity + light.intensity
    ELSE LET vec_l == LightVector(light, point)
             t_max == LightTMax(light)
         IN  IF IsShadow(point, vec_l, t_max, spheres, sphere_tag) THEN intensity
             ELSE intensity + Diffuse(light, normal, vec_l)
                            + Specular(light, normal, view, vec_l, specular)

RECURSIVE LightLoop(_, _, _, _, _, _, _, _, _)
LightLoop(intensity, i, point, normal, view, lights, spheres, specular, sphere_tag) ==
    IF i > Len(lights) THEN intensity
    ELSE LightLoop(LightStep(intensity, lights[i], point, normal, view, spheres,
                             specular, sphere_tag),
                   i + 1, point, normal, view, lights, spheres, specular, sphere_tag)

ComputeLighting(point, normal, view, lights, spheres, specular, sphere_tag) ==
    LightLoop(0, 1, point, normal, view, lights, spheres, specular, sphere_tag)

\* ------------------------------------------------------------------------
\* Recursive ray tracer
\* ------------------------------------------------------------------------
BACKGROUND_COLOR == [b |-> 0, g |-> 0, r |-> 0]

\* The scan iteration without the upper bound max_t on either root.
ScanBody_NoMaxT(acc, origin, direction, min_t, max_t, spheres, sphere_tag, j) ==
    IF sphere_tag = j THEN acc
    ELSE LET ts == IntersectRaySphere(origin, direction, spheres[j])
             a1 == IF ts[1] < acc.closest_t /\ min_t < ts[1]
                   THEN [closest_t |-> ts[1], closest_sphere |-> j]
                   ELSE acc
         IN  IF ts[2] < a1.closest_t /\ min_t < ts[2]
             THEN [closest_t |-> ts[2], closest_sphere |-> j]
             ELSE a1

\* The scan iteration that takes the "-" root for the nearer one and tests
\* only it.
ScanBody_SecondRootOnly(acc, origin, direction, min_t, max_t, spheres, sphere_tag, j) ==
    IF sphere_tag = j THEN acc
    ELSE LET ts == IntersectRaySphere(origin, direction, spheres[j])
         IN  IF ts[2] < acc.closest_t /\ min_t < ts[2] /\ ts[2] < max_t
             THEN [closest_t |-> ts[2], closest_sphere |-> j]
             ELSE acc

\* The scan iteration in which a root equal to closest_t replaces the hit
\* found so far.
ScanBody_LastWinsTie(acc, origin, direction, min_t, max_t, spheres, sphere_tag, j) ==
    IF sphere_tag = j THEN acc
    ELSE LET ts == IntersectRaySphere(origin, direction, spheres[j])
             a1 == IF ts[1] <= acc.closest_t /\ min_t < ts[1] /\ ts[1] < max_t
                   THEN [closest_t |-> ts[1], closest_sphere |-> j]
                   ELSE acc
         IN  IF ts[2] <= a1.closest_t /\ min_t < ts[2] /\ ts[2] < max_t
             THEN [closest_t |-> ts[2], closest_sphere |-> j]
             ELSE a1

\* One iteration of the scan over the spheres; acc is
\* [closest_t, closest_sphere].
ScanBody(acc, origin, direction, min_t, max_t, spheres, sphere_tag, j) ==
    IF sphere_tag = j THEN acc
    ELSE LET ts == IntersectRaySphere(origin, direction, spheres[j])
             a1 == IF ts[1] < acc.closest_t /\ min_t < ts[1] /\ ts[1] < max_t
                   THEN [closest_t |-> ts[1], closest_sphere |-> j]
                   ELSE acc
         IN  IF ts[2] < a1.closest_t /\ min_t < ts[2] /\ ts[2] < max_t
             THEN [closest_t |-> ts[2], closest_sphere |-> j]
             ELSE a1

ScanStart == [closest_t |-> INFINITY, closest_sphere |-> NULLPTR]

RECURSIVE ScanLoop(_, _, _, _, _, _, _, _)
ScanLoop(acc, origin, direction, min_t, max_t, spheres, sphere_tag, j) ==
    IF j > Len(spheres) THEN acc
    ELSE ScanLoop(ScanBody(acc, origin, direction, min_t, max_t, spheres, sphere_tag, j),
                  origin, direction, min_t, max_t, spheres, sphere_tag, j + 1)

\* point, normal and view of a hit at closest_t on sphere.
HitPoint(origin, direction, closest_t) == Add(origin, Multiply(closest_t, direction))

HitNormal(point, sphere) ==
    LET normal == Subtract(point, sphere.center)
    IN  Multiply(FDiv(ONE, Length(normal)), normal)

HitView(direction) == Multiply(-ONE, direction)

\* The lighting call that passes no sphere to exclude.
LightIntensity_NoSelf(origin, direction, closest_t, spheres, lights, closest_sphere) ==
    LET sphere == spheres[closest_sphere]
        point  == HitPoint(origin, direction, closest_t)
        normal == HitNormal(point, sphere)
        view   == HitView(direction)
    IN  ComputeLighting(point, normal, view, lights, spheres, sphere.specular, NULLPTR)

\* light_intensity of a hit: the call of ComputeLighting.
LightIntensity(origin, direction, closest_t, spheres, lights, closest_sphere) ==
    LET sphere == spheres[closest_sphere]
        point  == HitPoint(origin, direction, closest_t)
        normal == HitNormal(point, sphere)
        view   == HitView(direction)
    IN  ComputeLighting(point, normal, view, lights, spheres, sphere.specular,
                        closest_sphere)

\* local_color of a hit.
LocalColor(origin, direction, closest_t, spheres, lights, closest_sphere) ==
    MultiplyColor(LightIntensity(origin, direction, closest_t, spheres, lights,
                                 closest_sphere),
                  spheres[closest_sphere].color)

\* The test with the depth comparison off by one.
StopsAtLocal_DepthOff(sphere, depth) == sphere.reflective <= 0 \/ depth < 0

\* The test that ends the recursion after local shading.
StopsAtLocal(sphere, depth) == sphere.reflective <= 0 \/ depth <= 0

\* The recursive call that passes its own depth on.
ReflectedCall_SameDepth(origin, direction, closest_t, spheres, depth, closest_sphere) ==
    LET point  == HitPoint(origin, direction, closest_t)
        normal == HitNormal(point, spheres[closest_sphere])
    IN  [origin |-> point,
         direction |-> ReflectRayDirection(HitView(direction), normal),
         min_t |-> EPSILON, max_t |-> INFINITY,
         depth |-> depth, sphere_tag |-> closest_sphere]

\* The recursive call that excludes no sphere.
ReflectedCall_NoTag(origin, direction, closest_t, spheres, depth, closest_sphere) ==
    LET point  == HitPoint(origin, direction, closest_t)
        normal == HitNormal(point, spheres[closest_sphere])
    IN  [origin |-> point,
         direction |-> ReflectRayDirection(HitView(direction), normal),
         min_t |-> EPSILON, max_t |-> INFINITY,
         depth |-> depth - 1, sphere_tag |-> NULLPTR]

\* The arguments of the recursive call for the reflected ray.
ReflectedCall(origin, direction, closest_t, spheres, depth, closest_sphere) ==
    LET point  == HitPoint(origin, direction, closest_t)
        normal == HitNormal(point, spheres[closest_sphere])
    IN  [origin |-> point,
         direction |-> ReflectRayDirection(HitView(direction), normal),
         min_t |-> EPSILON, max_t |-> INFINITY,
         depth |-> depth - 1, sphere_tag |-> closest_sphere]

\* The blend with the local color left unweighted.
Blend_LocalUnweighted(sphere, local_color, reflected_color) ==
    AddColor(local_color, MultiplyColor(sphere.reflective, reflected_color))

\* The value returned after the recursive call.
Blend(sphere, local_color, reflected_color) ==
    AddColor(MultiplyColor(ONE - sphere.reflective, local_color),
             MultiplyColor(sphere.reflective, reflected_color))

RECURSIVE TraceRay(_, _, _, _, _, _, _, _)
TraceRay(origin, direction, min_t, max_t, spheres, lights, depth, sphere_tag) ==
    LET hit == ScanLoop(ScanStart, origin, direction, min_t, max_t, spheres, sphere_tag, 1)
    IN  IF hit.closest_sphere = NULLPTR THEN BACKGROUND_COLOR
        ELSE LET sphere == spheres[hit.closest_sphere]
                 local_color == LocalColor(origin, direction, hit.closest_t, spheres,
                                           lights, hit.closest_sphere)
             IN  IF StopsAtLocal(sphere, depth) THEN local_color
                 ELSE LET c == ReflectedCall(origin, direction, hit.closest_t, spheres,
                                             depth, hit.closest_sphere)
                      IN  Blend(sphere, local_color,
                                TraceRay(c.origin, c.direction, c.min_t, c.max_t,
                                         spheres, lights, c.depth, c.sphere_tag))

\* ------------------------------------------------------------------------
\* Scenes and rays the tracer is run on
\* ------------------------------------------------------------------------
Vec(x, y, z) == <<x * ONE, y * ONE, z * ONE>>

Rgb(b, g, r) == [b |-> b, g |-> g, r |-> r]

MkSphere(center, radius, color, specular, reflective) ==
    [center |-> center, radius |-> radius, color |-> color,
     specular |-> specular, reflective |-> reflective]

MkLight(ltype, intensity, position) ==
    [ltype |-> ltype, intensity |-> intensity, position |-> position]

AmbientLight(intensity) == MkLight("AMBIENT", intensity, <<INFINITY, INFINITY, INFINITY>>)

\* The scene of the source; its fourth sphere (radius 5000) is beyond the
\* range of the fixed-point floats and is left out.
SPHERES ==
    << MkSphere(Vec(0, -1, 3), ONE, Rgb(0, 0, 255), 500, 200),
       MkSphere(Vec(2, 0, 4), ONE, Rgb(255, 0, 0), 500, 300),
       MkSphere(Vec(-2, 0, 4), ONE, Rgb(0, 255, 0), 10, 400) >>

LIGHTS ==
    << AmbientLight(200),
       MkLight("POINT", 600, Vec(2, 1, 0)),
       MkLight("DIRECTIONAL", 200, Vec(1, 4, 4)) >>

CAMERA_POSITION == Vec(3, 0, 1)

CAMERA_ROTATION ==
    [line0 |-> <<707, 0, -707>>, line1 |-> <<0, ONE, 0>>, line2 |-> <<707, 0, 707>>]

\* Two mirrors facing each other on the z axis and a matte sphere that
\* straddles the near plane t = 1.
MirrorSpheres ==
    << MkSphere(Vec(0, 0, 3), ONE, Rgb(0, 0, 255), 10, 500),
       MkSphere(Vec(0, 0, -3), ONE, Rgb(255, 0, 0), -1, 1000),
       MkSphere(<<500, 0, 1000>>, 400, Rgb(0, 255, 0), 2, 0) >>

MirrorLights ==
    << AmbientLight(300), MkLight("DIRECTIONAL", 500, Vec(1, 1, -1)) >>

\* A matte sphere, a small occluder between it and the point light, and a
\* directional light that shines from behind the matte sphere.
ShadowSpheres ==
    << MkSphere(Vec(0, 0, 3), ONE, Rgb(255, 255, 255), 1, 0),
       MkSphere(<<0, 2000, 1000>>, 500, Rgb(0, 255, 0), -1, 0) >>

ShadowLights ==
    << AmbientLight(100),
       MkLight("POINT", 700, Vec(0, 4, 0)),
       MkLight("DIRECTIONAL", 400, Vec(0, -3, 10)),
       MkLight("DIRECTIONAL", 300, Vec(-1, 0, -2)) >>

\* One sphere under ambient light only, for each reflectivity.
AmbientSpheres(reflective) ==
    << MkSphere(Vec(0, 0, 3), ONE, Rgb(45, 120, 255), 10, reflective) >>

AmbientLights == << AmbientLight(1300) >>

\* Two spheres of different colors that touch at (0, 0, 3), where the ray
\* along the z axis grazes both at the same distance, and a sphere behind
\* the first one on the ray through its front pole; the second sphere
\* shadows that pole from the last light.
TangentSpheres ==
    << MkSphere(Vec(-1, 0, 3), ONE, Rgb(0, 0, 255), 10, 500),
       MkSphere(Vec(1, 0, 3), ONE, Rgb(255, 0, 0), -1, 0),
       MkSphere(Vec(-3, 0, 6), ONE, Rgb(0, 255, 0), 2, 0) >>

TangentLights ==
    << AmbientLight(400),
       MkLight("DIRECTIONAL", 500, Vec(0, 1, -1)),
       MkLight("DIRECTIONAL", 300, Vec(2, 0, 1)) >>

\* A mirror sphere around the origin of the rays, whose reflected rays
\* cross its inside again, and a matte sphere outside it.
EnclosingSpheres ==
    << MkSphere(Vec(0, 0, 0), 2 * ONE, Rgb(0, 0, 255), 10, 500),
       MkSphere(Vec(0, 0, -4), ONE, Rgb(255, 0, 0), -1, 0) >>

EnclosingLights ==
    << AmbientLight(500), MkLight("DIRECTIONAL", 400, Vec(0, 1, 0)) >>

Scenes ==
    { [spheres |-> SPHERES, lights |-> LIGHTS],
      [spheres |-> MirrorSpheres, lights |-> MirrorLights],
      [spheres |-> ShadowSpheres, lights |-> ShadowLights],
      [spheres |-> TangentSpheres, lights |-> TangentLights],
      [spheres |-> EnclosingSpheres, lights |-> EnclosingLights] }
    \cup { [spheres |-> AmbientSpheres(r), lights |-> AmbientLights] : r \in {0, 500, ONE} }

Origins == { Vec(0, 0, 0) }

Directions ==
    { <<0, 0, ONE>>, <<-500, 0, ONE>>, <<500, 0, ONE>>, <<0, -250, ONE>>,
      <<0, -300, ONE>>, <<250, -250, ONE>>, <<0, ONE, ONE>> }

MinTs == { EPSILON, ONE }

MaxTs == { 2500, INFINITY }

\* ------------------------------------------------------------------------
\* TraceRay as a machine: one stack frame per invocation
\* ------------------------------------------------------------------------
VARIABLES scene, args, stack, result, returned

traceVars == <<scene, args, stack, result, returned>>

\* The frame driver: the canvas, the main thread and its render threads.
VARIABLES canvasBuffer, num_threads, mainPc, main_i, threads, writtenBy, screen

\* The calls a frame has made so far, per pixel coordinate: the arguments of
\* each TraceRay call of RenderSection, and for each PutPixel call the
\* color TraceRay returned and the color passed.
VARIABLES primaryRays, putPixels

renderVars == <<canvasBuffer, num_threads, mainPc, main_i, threads, writtenBy, screen,
                primaryRays, putPixels>>

\* One function of the program run on its own: its arguments, its locals
\* and its return value.
VARIABLES input, local, output

unitVars == <<input, local, output>>

vars == <<traceVars, renderVars, unitVars>>

\* The canvas as std::vector<DWORD>::resize leaves it.
BufferCells == 0..(CANVAS_WIDTH * CANVAS_HEIGHT - 1)

EmptyBuffer == [c \in BufferCells |-> 0]

\* The driver before WinMain runs.
RenderIdle ==
    /\ canvasBuffer = EmptyBuffer
    /\ num_threads = 0
    /\ mainPc = "idle"
    /\ main_i = 0
    /\ threads = <<>>
    /\ writtenBy = [c \in BufferCells |-> {}]
    /\ screen = <<>>
    /\ primaryRays = <<>>
    /\ putPixels = <<>>

\* No function is run on its own.
UnitIdle ==
    /\ input = <<>>
    /\ local = <<>>
    /\ output = <<>>

NoColor == [b |-> 0, g |-> 0, r |-> 0]

\* The caller's slot for the returned color.
NoResult == [done |-> FALSE, color |-> NoColor]

\* The frame of a fresh invocation with the arguments a.
NewFrame(a) ==
    [origin |-> a.origin, direction |-> a.direction, min_t |-> a.min_t,
     max_t |-> a.max_t, depth |-> a.depth, sphere_tag |-> a.sphere_tag,
     j |-> 1, closest_t |-> INFINITY, closest_sphere |-> NULLPTR,
     pc |-> "scan", light_intensity |-> 0, local_color |-> NoColor,
     child |-> a, reflected_color |-> NoColor, lit |-> FALSE, recursed |-> FALSE]

Top == stack[Len(stack)]

SetTop(f) == [stack EXCEPT ![Len(stack)] = f]

Init ==
    /\ scene \in Scenes
    /\ args \in [origin : Origins, direction : Directions, min_t : MinTs,
                 max_t : MaxTs, depth : 0..MaxDepth, sphere_tag : {NULLPTR}]
    /\ stack = <<>>
    /\ result = NoResult
    /\ returned = <<>>
    /\ RenderIdle
    /\ UnitIdle

\* The caller invokes TraceRay(args).
Enter ==
    /\ stack = <<>>
    /\ ~result.done
    /\ stack' = <<NewFrame(args)>>
    /\ UNCHANGED <<scene, args, result, returned, renderVars, unitVars>>

\* One iteration of the for loop over the spheres.
ScanStep ==
    /\ stack # <<>>
    /\ Top.pc = "scan"
    /\ Top.j <= Len(scene.spheres)
    /\ LET f == Top
           acc == ScanBody([closest_t |-> f.closest_t, closest_sphere |-> f.closest_sphere],
                           f.origin, f.direction, f.min_t, f.max_t,
                           scene.spheres, f.sphere_tag, f.j)
       IN  stack' = SetTop([f EXCEPT !.closest_t = acc.closest_t,
                                     !.closest_sphere = acc.closest_sphere,
                                     !.j = f.j + 1])
    /\ UNCHANGED <<scene, args, result, returned, renderVars, unitVars>>

\* The top frame returns ret to its caller.
Return(ret) ==
    /\ returned' = Append(returned, [frame |-> Top, ret |-> ret, level |-> Len(stack)])
    /\ IF Len(stack) = 1
       THEN /\ stack' = <<>>
            /\ result' = [done |-> TRUE, color |-> ret]
       ELSE /\ stack' = [SubSeq(stack, 1, Len(stack) - 1) EXCEPT
                           ![Len(stack) - 1].reflected_color = ret,
                           ![Len(stack) - 1].pc = "blend"]
            /\ UNCHANGED result
    /\ UNCHANGED <<scene, args, renderVars, unitVars>>

\* if (closest_sphere == nullptr) return BACKGROUND_COLOR;
ReturnBackground ==
    /\ stack # <<>>
    /\ Top.pc = "scan"
    /\ Top.j > Len(scene.spheres)
    /\ Top.closest_sphere = NULLPTR
    /\ Return(BACKGROUND_COLOR)

\* point, normal, view, ComputeLighting and local_color.
Shade ==
    /\ stack # <<>>
    /\ Top.pc = "scan"
    /\ Top.j > Len(scene.spheres)
    /\ Top.closest_sphere # NULLPTR
    /\ LET f == Top
           li == LightIntensity(f.origin, f.direction, f.closest_t, scene.spheres,
                                scene.lights, f.closest_sphere)
       IN  stack' = SetTop([f EXCEPT !.pc = "shaded", !.lit = TRUE,
                                     !.light_intensity = li,
                                     !.local_color = LocalColor(f.origin, f.direction,
                                         f.closest_t, scene.spheres, scene.lights,
                                         f.closest_sphere)])
    /\ UNCHANGED <<scene, args, result, returned, renderVars, unitVars>>

\* if (closest_sphere->reflective <= 0 || depth <= 0) return local_color;
ReturnLocal ==
    /\ stack # <<>>
    /\ Top.pc = "shaded"
    /\ StopsAtLocal(scene.spheres[Top.closest_sphere], Top.depth)
    /\ Return(Top.local_color)

\* The recursive call for the reflected ray.
Recurse ==
    /\ stack # <<>>
    /\ Top.pc = "shaded"
    /\ ~StopsAtLocal(scene.spheres[Top.closest_sphere], Top.depth)
    /\ LET f == Top
           c == ReflectedCall(f.origin, f.direction, f.closest_t, scene.spheres,
                              f.depth, f.closest_sphere)
       IN  stack' = Append(SetTop([f EXCEPT !.pc = "wait", !.recursed = TRUE, !.child = c]),
                           NewFrame(c))
    /\ UNCHANGED <<scene, args, result, returned, renderVars, unitVars>>

\* The invocation that traces its reflected ray a second time before it
\* blends.
ReturnBlend_TracesTwice ==
    /\ stack # <<>>
    /\ Top.pc = "blend"
    /\ IF Cardinality({ i \in 1..Len(returned) : returned[i].level = Len(stack) + 1 }) < 2
       THEN /\ stack' = Append(SetTop([Top EXCEPT !.pc = "wait"]), NewFrame(Top.child))
            /\ UNCHANGED <<scene, args, result, returned, renderVars, unitVars>>
       ELSE Return(Blend(scene.spheres[Top.closest_sphere], Top.local_color,
                         Top.reflected_color))

\* return Add(Multiply(1 - reflective, local_color), Multiply(reflective, reflected_color));
ReturnBlend ==
    /\ stack # <<>>
    /\ Top.pc = "blend"
    /\ Return(Blend(scene.spheres[Top.closest_sphere], Top.local_color, Top.reflected_color))

Next ==
    \/ Enter
    \/ ScanStep
    \/ ReturnBackground
    \/ Shade
    \/ ReturnLocal
    \/ Recurse
    \/ ReturnBlend

Spec == Init /\ [][Next]_vars

\* ------------------------------------------------------------------------
\* Properties of TraceRay
\* ------------------------------------------------------------------------
LiveFrames == { stack[i] : i \in 1..Len(stack) }

ReturnedFrames == { returned[i].frame : i \in 1..Len(returned) }

Entries == { returned[i] : i \in 1..Len(returned) }

ScanDone(f) == f.j > Len(scene.spheres)

\* The roots <<t, sphere>> of the non-excluded spheres strictly inside
\* (min_t, max_t) along the ray of frame f.
InRangeRoots(f) ==
    { h \in { <<IntersectRaySphere(f.origin, f.direction, scene.spheres[j])[k], j>> :
                j \in (1..Len(scene.spheres)) \ {f.sphere_tag}, k \in 1..2 } :
        f.min_t < h[1] /\ h[1] < f.max_t }

\* C1: an invocation for which no non-excluded sphere has a root strictly
\* inside (min_t, max_t) returns exactly the background color, having made
\* no lighting evaluation and no recursive call, at every recursion level.
C1_MissReturnsBackground ==
    /\ \A e \in Entries :
         InRangeRoots(e.frame) = {} =>
             /\ e.ret = [b |-> 0, g |-> 0, r |-> 0]
             /\ ~e.frame.lit
             /\ ~e.frame.recursed
    /\ \A f \in LiveFrames :
         InRangeRoots(f) = {} => (f.pc = "scan" /\ ~f.lit /\ ~f.recursed)

\* A reflected ray (level 2 or deeper) that misses, and a primary ray whose
\* only roots lie beyond a finite max_t.
C1_Witness ==
    /\ \E e \in Entries :
         e.level > 1 /\ InRangeRoots(e.frame) = {} /\ e.ret = BACKGROUND_COLOR
    /\ result.done

C1_WitnessBeyondMax ==
    \E e \in Entries :
        /\ e.level = 1 /\ e.frame.max_t < INFINITY
        /\ InRangeRoots(e.frame) = {}
        /\ InRangeRoots([e.frame EXCEPT !.max_t = INFINITY]) # {}

\* C2: when some non-excluded sphere has a root strictly inside
\* (min_t, max_t), the hit that is shaded has closest_t equal to the least
\* such root over both roots of every sphere, and closest_sphere owns it.
C2_ClosestIsMinimum ==
    \A f \in LiveFrames \cup ReturnedFrames :
        (ScanDone(f) /\ InRangeRoots(f) # {}) =>
            /\ f.closest_sphere # NULLPTR
            /\ <<f.closest_t, f.closest_sphere>> \in InRangeRoots(f)
            /\ \A h \in InRangeRoots(f) : f.closest_t <= h[1]

\* A shaded hit whose closest root is the "+" root t1, the "-" root of the
\* same sphere being out of range, and a hit chosen among several spheres.
C2_Witness ==
    \E f \in ReturnedFrames :
        /\ f.lit
        /\ LET ts == IntersectRaySphere(f.origin, f.direction,
                                        scene.spheres[f.closest_sphere])
           IN  f.closest_t = ts[1] /\ ts[2] <= f.min_t /\ ts[2] < ts[1]

C2_WitnessSeveral ==
    \E f \in ReturnedFrames :
        f.lit /\ Cardinality({ h[2] : h \in InRangeRoots(f) }) > 1

\* C3: an invocation makes a recursive call if and only if it found a hit,
\* the hit sphere's reflectivity is > 0 and its depth is > 0; otherwise a
\* hit returns local_color.
C3_RecursesIff ==
    /\ \A e \in Entries :
         LET f == e.frame
             hit == f.closest_sphere # NULLPTR
             refl == IF hit THEN scene.spheres[f.closest_sphere].reflective ELSE 0
         IN  /\ f.recursed <=> (hit /\ refl > 0 /\ f.depth > 0)
             /\ (hit /\ (refl <= 0 \/ f.depth <= 0)) => e.ret = f.local_color
    /\ \A f \in LiveFrames :
         f.recursed =>
             /\ f.closest_sphere # NULLPTR
             /\ scene.spheres[f.closest_sphere].reflective > 0
             /\ f.depth > 0

\* depth = 0 on a reflective sphere returns local_color without recursion.
C3_Witness ==
    \E e \in Entries :
        /\ e.frame.lit /\ e.frame.depth = 0 /\ ~e.frame.recursed
        /\ scene.spheres[e.frame.closest_sphere].reflective > 0
        /\ e.ret = e.frame.local_color
        /\ e.level > 1

C3_WitnessRecursed ==
    \E e \in Entries : e.frame.recursed /\ e.frame.depth > 0

\* C4: a hit on a sphere with reflectivity r > 0 at depth >= 1 returns, per
\* channel, scale(1 - r, local_color) + scale(r, reflected_color), where
\* reflected_color is TraceRay from the hit point along
\* reflect(-direction, normal) with min_t = EPSILON, max_t = INFINITY,
\* depth - 1 and the hit sphere excluded.
C4_ReflectionBlend ==
    \A e \in Entries :
        LET f == e.frame IN
        (f.closest_sphere # NULLPTR
            /\ scene.spheres[f.closest_sphere].reflective > 0 /\ f.depth >= 1) =>
        LET sphere == scene.spheres[f.closest_sphere]
            r == sphere.reflective
            point == Add(f.origin, Multiply(f.closest_t, f.direction))
            normal == HitNormal(point, sphere)
            refl == TraceRay(point,
                             ReflectRayDirection(Multiply(-ONE, f.direction), normal),
                             EPSILON, INFINITY, scene.spheres, scene.lights,
                             f.depth - 1, f.closest_sphere)
        IN  /\ f.child = [origin |-> point,
                          direction |-> ReflectRayDirection(Multiply(-ONE, f.direction), normal),
                          min_t |-> EPSILON, max_t |-> INFINITY,
                          depth |-> f.depth - 1, sphere_tag |-> f.closest_sphere]
            /\ f.reflected_color = refl
            /\ e.ret.b = ((ONE - r) * f.local_color.b) \div ONE + (r * refl.b) \div ONE
            /\ e.ret.g = ((ONE - r) * f.local_color.g) \div ONE + (r * refl.g) \div ONE
            /\ e.ret.r = ((ONE - r) * f.local_color.r) \div ONE + (r * refl.r) \div ONE

\* A blend of a non-black local color with a non-black reflected color.
C4_Witness ==
    \E e \in Entries :
        /\ e.frame.recursed
        /\ e.frame.local_color # NoColor
        /\ e.frame.reflected_color # NoColor
        /\ scene.spheres[e.frame.closest_sphere].reflective < ONE
        /\ e.ret # e.frame.local_color

\* The depth argument falls by exactly 1 per nested call and the nesting of
\* calls never exceeds the initial depth (stack depth at most depth + 1).
NestingBounded ==
    /\ Len(stack) <= args.depth + 1
    /\ \A i \in 1..Len(stack) : stack[i].depth = args.depth - (i - 1)

RECURSIVE StepsOfCall(_)
\* The most steps an invocation with depth d takes: the scan, the shading,
\* and either the return or the recursive call, its steps and the blend.
StepsOfCall(d) ==
    Len(scene.spheres) + 1 + (IF d > 0 THEN 2 + StepsOfCall(d - 1) ELSE 1)

\* The most steps frame f still takes before it returns, nested calls it
\* has not yet made included.
StepsLeft(f) ==
    LET afterShade == IF f.depth > 0 THEN 2 + StepsOfCall(f.depth - 1) ELSE 1
    IN  CASE f.pc = "scan"   -> (Len(scene.spheres) + 1 - f.j) + 1 + afterShade
          [] f.pc = "shaded" -> afterShade
          [] f.pc = "wait"   -> 1
          [] f.pc = "blend"  -> 1

RECURSIVE SumStepsLeft(_)
SumStepsLeft(i) == IF i = 0 THEN 0 ELSE StepsLeft(stack[i]) + SumStepsLeft(i - 1)

\* The variant of the whole evaluation.
Rank ==
    IF stack = <<>>
    THEN (IF result.done THEN 0 ELSE 1 + StepsOfCall(args.depth))
    ELSE SumStepsLeft(Len(stack))

\* C5: every TraceRay invocation terminates: each step strictly decreases
\* the non-negative variant Rank; the depth argument strictly decreases by
\* 1 on each recursive call and, for an initial depth D >= 0, the nesting of
\* recursive calls never exceeds D.
C5_Terminates ==
    [][/\ Rank' < Rank
       /\ Rank' >= 0
       /\ (Rank' = 0 <=> result'.done)
       /\ NestingBounded']_vars

\* The deepest nesting the initial depth allows is reached, with depth 0 at
\* the innermost call.
C5_Witness ==
    /\ args.depth = MaxDepth
    /\ Len(stack) = MaxDepth + 1
    /\ stack[Len(stack)].depth = 0

\* ------------------------------------------------------------------------
\* Properties of ComputeLighting as called by TraceRay
\* ------------------------------------------------------------------------
LitFrames == { f \in LiveFrames \cup ReturnedFrames : f.lit }

PointOf(f) == Add(f.origin, Multiply(f.closest_t, f.direction))

NormalOf(f) == HitNormal(PointOf(f), scene.spheres[f.closest_sphere])

ViewOf(f) == Multiply(-ONE, f.direction)

\* The light vector of light l at the hit of f, and its shadow-test bound.
VecLOf(f, l) == IF l.ltype = "POINT" THEN Subtract(l.position, PointOf(f)) ELSE l.position

TMaxOf(l) == IF l.ltype = "POINT" THEN ONE ELSE INFINITY

\* Some sphere of the set others has a root strictly inside (EPSILON, t_max)
\* along the ray (point, L) of light l.
OccludedBy(f, l, others) ==
    \E j \in others : \E k \in 1..2 :
        LET t == IntersectRaySphere(PointOf(f), VecLOf(f, l), scene.spheres[j])[k]
        IN  EPSILON < t /\ t < TMaxOf(l)

OtherSpheres(f) == (1..Len(scene.spheres)) \ {f.closest_sphere}

\* What light l adds at the hit of f under the shadow rule.
Contribution(f, l) ==
    IF l.ltype = "AMBIENT" THEN l.intensity
    ELSE IF OccludedBy(f, l, OtherSpheres(f)) THEN 0
    ELSE Diffuse(l, NormalOf(f), VecLOf(f, l))
         + Specular(l, NormalOf(f), ViewOf(f), VecLOf(f, l),
                    scene.spheres[f.closest_sphere].specular)

RECURSIVE SumContributions(_, _)
SumContributions(f, i) ==
    IF i = 0 THEN 0 ELSE Contribution(f, scene.lights[i]) + SumContributions(f, i - 1)

\* C6: a Point or Directional light for which some sphere other than
\* selfSphere has a root strictly inside (EPSILON, tMax) along (point, L)
\* adds exactly zero (neither diffuse nor specular); every Ambient light and
\* every unoccluded light adds its full term.
C6_ShadowedLightAddsNothing ==
    \A f \in LitFrames : f.light_intensity = SumContributions(f, Len(scene.lights))

\* A hit at which one light is occluded although its diffuse term would be
\* positive, another light is unoccluded with a positive term, and an
\* ambient light is present.
C6_Witness ==
    \E f \in LitFrames :
        /\ \E i \in 1..Len(scene.lights) :
             LET l == scene.lights[i] IN
             /\ l.ltype = "POINT"
             /\ OccludedBy(f, l, OtherSpheres(f))
             /\ Diffuse(l, NormalOf(f), VecLOf(f, l)) > 0
        /\ \E i \in 1..Len(scene.lights) :
             LET l == scene.lights[i] IN
             /\ l.ltype # "AMBIENT"
             /\ ~OccludedBy(f, l, OtherSpheres(f))
             /\ Contribution(f, l) > 0
        /\ \E i \in 1..Len(scene.lights) :
             scene.lights[i].ltype = "AMBIENT" /\ scene.lights[i].intensity > 0

\* The sphere collection with sphere k taken out.
SpheresWithout(k) ==
    SubSeq(scene.spheres, 1, k - 1) \o SubSeq(scene.spheres, k + 1, Len(scene.spheres))

\* C7: the sphere being shaded is excluded from its own tests: the lighting
\* of every hit is the lighting the scene gives with the hit sphere taken
\* out of the shadow tests, every reflected-ray invocation carries the
\* caller's hit sphere as its excluded sphere, and no invocation records its
\* excluded sphere as its hit.
C7_SelfExcluded ==
    /\ \A f \in LitFrames :
         f.light_intensity =
             ComputeLighting(PointOf(f), NormalOf(f), ViewOf(f), scene.lights,
                             SpheresWithout(f.closest_sphere),
                             scene.spheres[f.closest_sphere].specular, NULLPTR)
    /\ \A i \in 2..Len(stack) :
         /\ stack[i - 1].closest_sphere # NULLPTR
         /\ stack[i].sphere_tag = stack[i - 1].closest_sphere
    /\ \A f \in LiveFrames \cup ReturnedFrames :
         f.closest_sphere # NULLPTR => f.closest_sphere # f.sphere_tag

\* A hit whose own sphere, were it tested, would shadow a light that adds a
\* positive term, inside a reflected-ray invocation or at the top level.
C7_Witness ==
    \E f \in LitFrames :
        \E i \in 1..Len(scene.lights) :
            LET l == scene.lights[i] IN
            /\ l.ltype # "AMBIENT"
            /\ OccludedBy(f, l, {f.closest_sphere})
            /\ ~OccludedBy(f, l, OtherSpheres(f))
            /\ Contribution(f, l) > 0

C7_WitnessReflected ==
    /\ Len(stack) >= 2
    /\ stack[Len(stack)].lit
    /\ stack[Len(stack)].sphere_tag = stack[Len(stack) - 1].closest_sphere

\* ------------------------------------------------------------------------
\* One sphere under ambient light only
\* ------------------------------------------------------------------------
\* The scene holds a single sphere and Ambient lights only.
AmbientOnlyScene ==
    /\ Len(scene.spheres) = 1
    /\ \A i \in 1..Len(scene.lights) : scene.lights[i].ltype = "AMBIENT"

RECURSIVE SumIntensity(_)
SumIntensity(i) == IF i = 0 THEN 0 ELSE scene.lights[i].intensity + SumIntensity(i - 1)

\* I * sphere.color, channel by channel, truncated.
AmbientColor ==
    LET I == SumIntensity(Len(scene.lights))
        c == scene.spheres[1].color
    IN  [b |-> (I * c.b) \div ONE, g |-> (I * c.g) \div ONE, r |-> (I * c.r) \div ONE]

ClampChannel(v) == IF v > 255 THEN 255 ELSE IF v < 0 THEN 0 ELSE v

ClampedColor(c) == [b |-> ClampChannel(c.b), g |-> ClampChannel(c.g), r |-> ClampChannel(c.r)]

\* The primary rays (min_t = 1, max_t = INFINITY) that have returned from a
\* hit in an ambient-only single-sphere scene.
AmbientPrimaryHits ==
    { e \in Entries :
        /\ AmbientOnlyScene
        /\ e.level = 1 /\ e.frame.min_t = ONE /\ e.frame.max_t = INFINITY
        /\ e.frame.closest_sphere # NULLPTR }

\* C8 as stated: for every reflectivity in [0,1] and every recursion depth
\* the clamped color of a primary ray that hits the sphere equals
\* clamp(I * sphere.color).
C8_AmbientColorAnyReflectivity ==
    \A e \in AmbientPrimaryHits : ClampedColor(e.ret) = ClampedColor(AmbientColor)

\* C8 (amended): the clamped color equals clamp(I * sphere.color) when the
\* sphere's reflectivity is <= 0 or the recursion depth is <= 0; for
\* reflectivity r > 0 and depth >= 1 it equals
\* clamp(scale(1 - r, I * sphere.color) + scale(r, background)).
C8_AmbientColor ==
    \A e \in AmbientPrimaryHits :
        LET r == scene.spheres[1].reflective
            a == AmbientColor
        IN  IF r <= 0 \/ e.frame.depth <= 0
            THEN ClampedColor(e.ret) = ClampedColor(a)
            ELSE ClampedColor(e.ret) =
                   ClampedColor(
                     [b |-> ((ONE - r) * a.b) \div ONE + (r * BACKGROUND_COLOR.b) \div ONE,
                      g |-> ((ONE - r) * a.g) \div ONE + (r * BACKGROUND_COLOR.g) \div ONE,
                      r |-> ((ONE - r) * a.r) \div ONE + (r * BACKGROUND_COLOR.r) \div ONE])

\* Both cases have returned: a matte sphere at depth >= 1 and a reflective
\* sphere at depth >= 1 whose color is no longer clamp(I * color).
C8_Witness ==
    \E e \in AmbientPrimaryHits :
        /\ e.frame.depth >= 1
        /\ scene.spheres[1].reflective > 0
        /\ scene.spheres[1].reflective < ONE
        /\ ClampedColor(e.ret) # ClampedColor(AmbientColor)
        /\ e.ret # NoColor

C8_WitnessMatte ==
    \E e \in AmbientPrimaryHits :
        /\ e.frame.depth >= 1
        /\ scene.spheres[1].reflective = 0
        /\ ClampedColor(e.ret) = ClampedColor(AmbientColor)

\* ------------------------------------------------------------------------
\* Parallel frame driver: PutPixel, RenderSection, WinMain
\* ------------------------------------------------------------------------
\* a / b of two ints, truncated toward zero.
IntDiv(a, b) == IF a >= 0 THEN a \div b ELSE -((-a) \div b)

\* The int an unsigned 32-bit result converts to: v modulo 2^32, read as a
\* two's-complement value; computed on 16-bit halves.
ToInt(v) ==
    LET hi == (v \div 65536) % 65536
        lo == v % 65536
    IN  IF hi >= 32768 THEN (hi - 65536) * 65536 + lo ELSE hi * 65536 + lo

\* The RGB macro of windows.h: the low byte of each argument.
RGB(r, g, b) == (r % 256) + 256 * (g % 256) + 65536 * (b % 256)

\* The offset computed without the test of the column x_r.
PutPixelOffset_NoColumnCheck(x, y) ==
    LET x_r == IntDiv(CANVAS_WIDTH, 2) + x
        y_r == IntDiv(CANVAS_HEIGHT, 2) - y
    IN  IF y_r >= 0 /\ y_r < CANVAS_HEIGHT
        THEN x_r + CANVAS_WIDTH * y_r
        ELSE -1

\* The cell PutPixel writes for (x, y), or -1 when its range check drops
\* the pixel.
PutPixelOffset(x, y) ==
    LET x_r == IntDiv(CANVAS_WIDTH, 2) + x
        y_r == IntDiv(CANVAS_HEIGHT, 2) - y
    IN  IF x_r >= 0 /\ x_r < CANVAS_WIDTH /\ y_r >= 0 /\ y_r < CANVAS_HEIGHT
        THEN x_r + CANVAS_WIDTH * y_r
        ELSE -1

\* The buffer after PutPixel(x, y, color).
PutPixel(buf, x, y, color) ==
    IF PutPixelOffset(x, y) = -1 THEN buf
    ELSE [buf EXCEPT ![PutPixelOffset(x, y)] = RGB(color.b, color.g, color.r)]

\* int section_width = CANVAS_HEIGHT / num_threads;  (unsigned division)
\* for a canvas of the given height.
SectionWidthOf(height, n) == ToInt(height \div n)

\* int start_y = i * section_width - CANVAS_HEIGHT / 2;  (unsigned arithmetic)
StartYOf(height, i, n) == ToInt(i * SectionWidthOf(height, n) - IntDiv(height, 2))

\* int end_y = (i + 1) * section_width - CANVAS_HEIGHT / 2, and
\* CANVAS_HEIGHT / 2 for the last thread.
EndYOf(height, i, n) ==
    IF i = n - 1 THEN IntDiv(height, 2)
    ELSE ToInt((i + 1) * SectionWidthOf(height, n) - IntDiv(height, 2))

SectionWidth(n) == SectionWidthOf(CANVAS_HEIGHT, n)

StartY(i, n) == StartYOf(CANVAS_HEIGHT, i, n)

\* The band end without the remainder rows given to the last thread.
EndY_NoRemainder(i, n) == ToInt((i + 1) * SectionWidth(n) - IntDiv(CANVAS_HEIGHT, 2))

\* The band end taken as an inclusive row.
EndY_Inclusive(i, n) ==
    IF i = n - 1 THEN IntDiv(CANVAS_HEIGHT, 2)
    ELSE ToInt((i + 1) * SectionWidth(n) - IntDiv(CANVAS_HEIGHT, 2)) + 1

\* int end_y = (i + 1) * section_width - CANVAS_HEIGHT / 2, and
\* CANVAS_HEIGHT / 2 for the last thread.
EndY(i, n) == EndYOf(CANVAS_HEIGHT, i, n)

\* The primary ray traced from the near plane of the hit surface's side:
\* min_t = EPSILON as for a reflected ray.
PrimaryCall_MinTEpsilon(x, y, camera_rotation, camera_position) ==
    [origin |-> camera_position,
     direction |-> MultiplyMV(camera_rotation, CanvasToViewport(x, y)),
     min_t |-> EPSILON, max_t |-> INFINITY, depth |-> RECURSION_DEPTH,
     sphere_tag |-> NULLPTR]

\* The arguments of the TraceRay call RenderSection makes for the pixel
\* (x, y).
PrimaryCall(x, y, camera_rotation, camera_position) ==
    [origin |-> camera_position,
     direction |-> MultiplyMV(camera_rotation, CanvasToViewport(x, y)),
     min_t |-> ONE, max_t |-> INFINITY, depth |-> RECURSION_DEPTH,
     sphere_tag |-> NULLPTR]

\* The color RenderSection computes for the pixel (x, y).
PixelColor(x, y, spheres, lights, camera_rotation, camera_position) ==
    LET call == PrimaryCall(x, y, camera_rotation, camera_position)
    IN  TraceRay(call.origin, call.direction, call.min_t, call.max_t, spheres, lights,
                 call.depth, call.sphere_tag)

FirstX == -IntDiv(CANVAS_WIDTH, 2)

LastX == IntDiv(CANVAS_WIDTH, 2)

\* The pixel coordinates of the canvas loops.
PixelCoords ==
    (FirstX..(LastX - 1)) \X ((-IntDiv(CANVAS_HEIGHT, 2))..(IntDiv(CANVAS_HEIGHT, 2) - 1))

ThreadIds == 0..(num_threads - 1)

\* The tracer is not running on its own while a frame is rendered.
\* The scene of the source with one more sphere, 0.5 in front of the camera
\* along the ray of the pixel (0, 0) and closer than the projection plane.
NearSpheres ==
    Append(SPHERES, MkSphere(<<2646, 0, 1354>>, 200, Rgb(0, 255, 255), -1, 0))

\* The lights of the source with an ambient light of intensity 1.3.
BrightLights == << AmbientLight(1300), LIGHTS[2], LIGHTS[3] >>

\* The scenes RenderSection is given.
RenderScenes ==
    { [spheres |-> SPHERES, lights |-> LIGHTS],
      [spheres |-> NearSpheres, lights |-> BrightLights] }

\* The tracer is not running on its own while the scene sc is rendered.
TraceIdleIn(sc) ==
    /\ scene = sc
    /\ args = [origin |-> CAMERA_POSITION, direction |-> <<0, 0, ONE>>, min_t |-> ONE,
               max_t |-> INFINITY, depth |-> RECURSION_DEPTH, sphere_tag |-> NULLPTR]
    /\ stack = <<>>
    /\ result = NoResult
    /\ returned = <<>>

TraceIdle ==
    /\ scene = [spheres |-> SPHERES, lights |-> LIGHTS]
    /\ args = [origin |-> CAMERA_POSITION, direction |-> <<0, 0, ONE>>, min_t |-> ONE,
               max_t |-> INFINITY, depth |-> RECURSION_DEPTH, sphere_tag |-> NULLPTR]
    /\ stack = <<>>
    /\ result = NoResult
    /\ returned = <<>>

\* WinMain after canvasBuffer.resize and the construction of the threads
\* vector, for each thread count.
InitRender ==
    /\ \E sc \in RenderScenes : TraceIdleIn(sc)
    /\ UnitIdle
    /\ canvasBuffer = EmptyBuffer
    /\ num_threads \in 1..MaxThreads
    /\ mainPc = "spawn"
    /\ main_i = 0
    /\ threads = [i \in ThreadIds |->
                    [state |-> "none", start_y |-> 0, end_y |-> 0, y |-> 0, x |-> 0,
                     pc |-> "row", color |-> NoColor]]
    /\ writtenBy = [c \in BufferCells |-> {}]
    /\ screen = <<>>
    /\ primaryRays = [p \in PixelCoords |-> <<>>]
    /\ putPixels = [p \in PixelCoords |-> <<>>]

\* The thread joined right after it is created, inside the creating loop.
Spawn_JoinEach ==
    /\ mainPc = "spawn"
    /\ main_i < num_threads
    /\ threads' = [threads EXCEPT ![main_i] =
                     [state |-> "running",
                      start_y |-> StartY(main_i, num_threads),
                      end_y |-> EndY(main_i, num_threads),
                      y |-> StartY(main_i, num_threads), x |-> FirstX,
                      pc |-> "row", color |-> NoColor]]
    /\ main_i' = main_i
    /\ mainPc' = "join"
    /\ UNCHANGED <<traceVars, unitVars, canvasBuffer, num_threads, writtenBy, screen,
                   primaryRays, putPixels>>

\* One iteration of the loop that creates the threads.
Spawn ==
    /\ mainPc = "spawn"
    /\ main_i < num_threads
    /\ threads' = [threads EXCEPT ![main_i] =
                     [state |-> "running",
                      start_y |-> StartY(main_i, num_threads),
                      end_y |-> EndY(main_i, num_threads),
                      y |-> StartY(main_i, num_threads), x |-> FirstX,
                      pc |-> "row", color |-> NoColor]]
    /\ main_i' = IF main_i + 1 = num_threads THEN 0 ELSE main_i + 1
    /\ mainPc' = IF main_i + 1 = num_threads THEN "join" ELSE "spawn"
    /\ UNCHANGED <<traceVars, unitVars, canvasBuffer, num_threads, writtenBy, screen,
                   primaryRays, putPixels>>

\* Thread i is running RenderSection and stands at pc. RenderSection has
\* no lock, wait or other synchronisation: where a worker stands depends on
\* its own locals only.
WorkerAt(i, pc) == threads[i].state = "running" /\ threads[i].pc = pc

\* RenderSection, thread i: the test of the loop over the rows.
RowTest(i) ==
    /\ WorkerAt(i, "row")
    /\ LET t == threads[i]
       IN  threads' = [threads EXCEPT ![i] =
                         IF t.y < t.end_y THEN [t EXCEPT !.pc = "col", !.x = FirstX]
                         ELSE [t EXCEPT !.state = "finished"]]
    /\ UNCHANGED <<traceVars, unitVars, canvasBuffer, num_threads, mainPc, main_i, writtenBy, screen,
                   primaryRays, putPixels>>

\* The pixel step with a cache of the last sphere: the spheres vector is
\* rotated in place after each trace.
TracePixel_ReordersSpheres(i) ==
    /\ WorkerAt(i, "col")
    /\ LET t == threads[i]
       IN  /\ threads' = [threads EXCEPT ![i] =
                             IF t.x < LastX
                             THEN [t EXCEPT !.pc = "put",
                                            !.color = PixelColor(t.x, t.y, scene.spheres,
                                                                 scene.lights, CAMERA_ROTATION,
                                                                 CAMERA_POSITION)]
                             ELSE [t EXCEPT !.pc = "row", !.y = t.y + 1]]
           /\ primaryRays' =
                 IF t.x < LastX
                 THEN [primaryRays EXCEPT ![<<t.x, t.y>>] =
                         Append(@, PrimaryCall(t.x, t.y, CAMERA_ROTATION, CAMERA_POSITION))]
                 ELSE primaryRays
           /\ scene' = IF t.x < LastX
                       THEN [scene EXCEPT !.spheres = Append(Tail(@), Head(@))]
                       ELSE scene
    /\ UNCHANGED <<args, stack, result, returned, unitVars, canvasBuffer, num_threads, mainPc,
                   main_i, writtenBy, screen, putPixels>>

\* RenderSection, thread i: the test of the loop over the columns, and for
\* a pixel CanvasToViewport, MultiplyMV and TraceRay.
TracePixel(i) ==
    /\ WorkerAt(i, "col")
    /\ LET t == threads[i]
       IN  threads' = [threads EXCEPT ![i] =
                         IF t.x < LastX
                         THEN [t EXCEPT !.pc = "put",
                                        !.color = PixelColor(t.x, t.y, scene.spheres,
                                                             scene.lights, CAMERA_ROTATION,
                                                             CAMERA_POSITION)]
                         ELSE [t EXCEPT !.pc = "row", !.y = t.y + 1]]
           /\ primaryRays' =
                 IF t.x < LastX
                 THEN [primaryRays EXCEPT ![<<t.x, t.y>>] =
                         Append(@, PrimaryCall(t.x, t.y, CAMERA_ROTATION, CAMERA_POSITION))]
                 ELSE primaryRays
    /\ UNCHANGED <<traceVars, unitVars, canvasBuffer, num_threads, mainPc, main_i, writtenBy, screen,
                   putPixels>>

\* RenderSection, thread i: PutPixel(x, y, Clamp(color)); ++x.
WritePixel(i) ==
    /\ WorkerAt(i, "put")
    /\ LET t == threads[i]
           offset == PutPixelOffset(t.x, t.y)
       IN  /\ canvasBuffer' = PutPixel(canvasBuffer, t.x, t.y, Clamp(t.color))
           /\ writtenBy' = IF offset = -1 THEN writtenBy
                           ELSE [writtenBy EXCEPT ![offset] = @ \cup {i}]
           /\ putPixels' = [putPixels EXCEPT ![<<t.x, t.y>>] =
                              Append(@, [traced |-> t.color, color |-> Clamp(t.color)])]
           /\ threads' = [threads EXCEPT ![i] = [t EXCEPT !.pc = "col", !.x = t.x + 1]]
    /\ UNCHANGED <<traceVars, unitVars, num_threads, mainPc, main_i, screen, primaryRays>>

\* One iteration of the loop that joins the threads.
Join ==
    /\ mainPc = "join"
    /\ threads[main_i].state = "finished"
    /\ threads' = [threads EXCEPT ![main_i].state = "joined"]
    /\ main_i' = main_i + 1
    /\ mainPc' = IF main_i + 1 = num_threads THEN "window" ELSE "join"
    /\ UNCHANGED <<traceVars, unitVars, canvasBuffer, num_threads, writtenBy, screen,
                   primaryRays, putPixels>>

\* The window is created and shown; WM_PAINT blits the buffer (UpdateCanvas).
Present ==
    /\ mainPc = "window"
    /\ screen' = canvasBuffer
    /\ mainPc' = "shown"
    /\ UNCHANGED <<traceVars, unitVars, canvasBuffer, num_threads, main_i, threads, writtenBy,
                   primaryRays, putPixels>>

NextRender ==
    \/ Spawn
    \/ \E i \in ThreadIds : RowTest(i)
    \/ \E i \in ThreadIds : TracePixel(i)
    \/ \E i \in ThreadIds : WritePixel(i)
    \/ Join
    \/ Present

SpecRender == InitRender /\ [][NextRender]_vars

\* The sequential main rendering loop (one thread, x outer, y inner),
\* continued from pixel (x, y) on the buffer buf.
RECURSIVE SequentialRender(_, _, _)
SequentialRender(buf, x, y) ==
    IF x >= IntDiv(CANVAS_WIDTH, 2) THEN buf
    ELSE IF y >= IntDiv(CANVAS_HEIGHT, 2)
         THEN SequentialRender(buf, x + 1, -IntDiv(CANVAS_HEIGHT, 2))
    ELSE SequentialRender(
             PutPixel(buf, x, y,
                      Clamp(TraceRay(CAMERA_POSITION,
                                     MultiplyMV(CAMERA_ROTATION, CanvasToViewport(x, y)),
                                     ONE, INFINITY, scene.spheres, scene.lights, RECURSION_DEPTH,
                                     NULLPTR))),
             x, y + 1)

AllJoined == mainPc \in {"window", "shown"}

\* C9: once every worker band has been rendered and joined, the output
\* buffer is pixel-for-pixel the buffer the single sequential loop over all
\* pixel coordinates produces, for every interleaving and thread count.
C9_ParallelEqualsSequential ==
    AllJoined =>
        canvasBuffer = SequentialRender(EmptyBuffer, -IntDiv(CANVAS_WIDTH, 2),
                                        -IntDiv(CANVAS_HEIGHT, 2))

\* A frame joined after more than one worker wrote non-black pixels, with a
\* thread count that divides the canvas height.
C9_Witness ==
    /\ AllJoined
    /\ num_threads > 1
    /\ CANVAS_HEIGHT % num_threads = 0
    /\ Cardinality({ i \in ThreadIds : \E c \in BufferCells : i \in writtenBy[c] }) > 1
    /\ \E c \in BufferCells : canvasBuffer[c] # 0

\* C10: in every interleaving, no output-buffer cell is written by two
\* different workers.
C10_DisjointWrites ==
    \A c \in BufferCells : Cardinality(writtenBy[c]) <= 1

\* Two workers are writing at the same time and each has written a cell.
C10_Witness ==
    \E i, j \in ThreadIds :
        /\ i # j
        /\ threads[i].state = "running" /\ threads[j].state = "running"
        /\ \E c \in BufferCells : writtenBy[c] = {i}
        /\ \E c \in BufferCells : writtenBy[c] = {j}

\* Worker i can take its next step: the guard of one of RowTest,
\* TracePixel and WritePixel holds (their assignments are total).
WorkerCanStep(i) == WorkerAt(i, "row") \/ WorkerAt(i, "col") \/ WorkerAt(i, "put")

\* C12: within a render pass all N workers are started before any is
\* joined, the frame is presented only after every worker has finished and
\* been joined, and no worker ever waits on another worker (the next step
\* of a running worker is enabled whatever the others are doing).
C12_ForkJoinOrder ==
    /\ (\E i \in ThreadIds : threads[i].state = "joined") =>
           (\A i \in ThreadIds : threads[i].state # "none")
    /\ (mainPc \in {"window", "shown"} \/ screen # <<>>) =>
           (\A i \in ThreadIds : threads[i].state = "joined")
    /\ \A i \in ThreadIds : threads[i].state = "running" => WorkerCanStep(i)

\* A frame of several workers has been presented, and it is the joined
\* buffer.
C12_Witness ==
    /\ mainPc = "shown"
    /\ num_threads > 1
    /\ screen = canvasBuffer
    /\ \A i \in ThreadIds : threads[i].state = "joined"
    /\ \E c \in BufferCells : screen[c] # 0

\* C13: every PutPixel call of a pass over x in [-W/2, W/2), y in
\* [-H/2, H/2) stores its color (none is dropped by the range check), and
\* after the pass every one of the W*H cells of the buffer has been written.
C13_EveryPixelStored ==
    /\ \A p \in PixelCoords :
           Len(putPixels[p]) > 0 =>
               /\ PutPixelOffset(p[1], p[2]) \in BufferCells
               /\ writtenBy[PutPixelOffset(p[1], p[2])] # {}
    /\ AllJoined => \A c \in BufferCells : writtenBy[c] # {}

\* The PutPixel calls made so far.
PutCalls == UNION { { putPixels[p][k] : k \in 1..Len(putPixels[p]) } : p \in PixelCoords }

InByteRange(c) == c.b \in 0..255 /\ c.g \in 0..255 /\ c.r \in 0..255

\* C14: colors are clamped exactly once, at the pixel write: every color
\* passed to PutPixel has its three channels in [0, 255] and is the
\* channel-wise clamp of the color TraceRay returned, while TraceRay's
\* result, Multiply and Add are not clamped (doubling a traced color by
\* either gives exactly twice each channel, beyond 255 or not).
C14_ClampedOnceAtWrite ==
    \A e \in PutCalls :
        /\ InByteRange(e.color)
        /\ e.color = ClampedColor(e.traced)
        /\ AddColor(e.traced, e.traced) =
               [b |-> 2 * e.traced.b, g |-> 2 * e.traced.g, r |-> 2 * e.traced.r]
        /\ MultiplyColor(2 * ONE, e.traced) =
               [b |-> 2 * e.traced.b, g |-> 2 * e.traced.g, r |-> 2 * e.traced.r]

\* TraceRay returned a color with a channel above 255 and PutPixel was
\* passed 255 for it.
C14_Witness ==
    \E e \in PutCalls : e.traced.g > 255 /\ e.color.g = 255 /\ e.traced.r \in 1..254

\* Worker i takes a step of RenderSection.
WorkerMoves(i) ==
    /\ i \in DOMAIN threads
    /\ threads[i].state = "running"
    /\ threads'[i] # threads[i]

\* C16: no step of a render pass modifies the scene (spheres and lights;
\* the camera and the background color are constants), and a step of a
\* worker writes nothing but the output buffer and the worker's own
\* locals: not the thread count, the main thread, the screen or another
\* worker.
C16_SceneReadOnly ==
    [][/\ scene' = scene
       /\ \A i \in DOMAIN threads :
             WorkerMoves(i) =>
                 /\ num_threads' = num_threads
                 /\ mainPc' = mainPc /\ main_i' = main_i
                 /\ screen' = screen
                 /\ \A j \in DOMAIN threads : j # i => threads'[j] = threads[j]
                 /\ \A c \in BufferCells :
                       canvasBuffer'[c] # canvasBuffer[c] =>
                           c = PutPixelOffset(threads[i].x, threads[i].y)]_vars

\* A pass of several workers over the scene with the extra sphere has been
\* joined, every pixel traced, and the scene is as it was given.
C16_Witness ==
    /\ AllJoined
    /\ num_threads > 1
    /\ \A p \in PixelCoords : Len(primaryRays[p]) > 0
    /\ scene = [spheres |-> NearSpheres, lights |-> BrightLights]

\* (x/W, y/H, 1) for the pixel p = (x, y).
ViewportPoint(p) ==
    <<(p[1] * ONE) \div CANVAS_WIDTH, (p[2] * ONE) \div CANVAS_HEIGHT, ONE>>

\* The camera rotation applied row by row to v.
RotatedRowWise(v) ==
    <<FMul(CAMERA_ROTATION.line0[1], v[1]) + FMul(CAMERA_ROTATION.line0[2], v[2])
        + FMul(CAMERA_ROTATION.line0[3], v[3]),
      FMul(CAMERA_ROTATION.line1[1], v[1]) + FMul(CAMERA_ROTATION.line1[2], v[2])
        + FMul(CAMERA_ROTATION.line1[3], v[3]),
      FMul(CAMERA_ROTATION.line2[1], v[1]) + FMul(CAMERA_ROTATION.line2[2], v[2])
        + FMul(CAMERA_ROTATION.line2[3], v[3])>>

\* The finite roots of the spheres of the scene along the primary ray of
\* the pixel p.
PrimaryRoots(p) ==
    UNION { { IntersectRaySphere(CAMERA_POSITION, RotatedRowWise(ViewportPoint(p)),
                                 scene.spheres[j])[k] : k \in 1..2 } :
            j \in 1..Len(scene.spheres) } \ {INFINITY}

\* C20: for every pixel (x, y) of its band the frame driver traces exactly
\* one primary ray, with origin = camera position, direction = the
\* rotation applied row-wise to (x/W, y/H, 1), min_t = 1, max_t = INFINITY,
\* depth = RECURSION_DEPTH and no excluded sphere; the color a worker holds
\* for a pixel whose primary ray has no intersection beyond t = 1 is the
\* background color, whatever the ray intersects at t <= 1.
C20_PrimaryRay ==
    /\ \A p \in DOMAIN primaryRays :
          /\ Len(primaryRays[p]) <= 1
          /\ AllJoined => Len(primaryRays[p]) = 1
          /\ \A k \in 1..Len(primaryRays[p]) :
                primaryRays[p][k] =
                    [origin |-> CAMERA_POSITION,
                     direction |-> RotatedRowWise(ViewportPoint(p)),
                     min_t |-> ONE, max_t |-> INFINITY, depth |-> RECURSION_DEPTH,
                     sphere_tag |-> NULLPTR]
    /\ \A i \in DOMAIN threads :
          (WorkerAt(i, "put") /\ \A t \in PrimaryRoots(<<threads[i].x, threads[i].y>>) : t <= ONE)
              => threads[i].color = BACKGROUND_COLOR

\* The pixel (0, 0) has been traced and written with the background color
\* although its primary ray crosses a sphere in front of the projection
\* plane (both roots between 0 and 1).
C20_Witness ==
    /\ <<0, 0>> \in DOMAIN putPixels
    /\ Len(primaryRays[<<0, 0>>]) = 1
    /\ Len(putPixels[<<0, 0>>]) = 1
    /\ putPixels[<<0, 0>>][1].traced = BACKGROUND_COLOR
    /\ \E t1, t2 \in PrimaryRoots(<<0, 0>>) : 0 < t1 /\ t1 < t2 /\ t2 < ONE

\* ------------------------------------------------------------------------
\* The band computation of WinMain on its own, for every canvas height and
\* thread count
\* ------------------------------------------------------------------------
\* WinMain before its thread-creating loop, for a canvas of each height and
\* each thread count.
InitBands ==
    /\ TraceIdle
    /\ RenderIdle
    /\ input \in [height : 1..MaxHeight, num_threads : 1..MaxBandThreads]
    /\ local = [i |-> 0]
    /\ output = <<>>

\* One iteration of the thread-creating loop: the band handed to thread i.
BandStep ==
    /\ local.i < input.num_threads
    /\ output' = Append(output,
                        [start_y |-> StartYOf(input.height, local.i, input.num_threads),
                         end_y |-> EndYOf(input.height, local.i, input.num_threads)])
    /\ local' = [i |-> local.i + 1]
    /\ UNCHANGED <<traceVars, renderVars, input>>

NextBands == BandStep

SpecBands == InitBands /\ [][NextBands]_vars

BandsDone == input # <<>> /\ local.i = input.num_threads

\* The rows of band k.
BandRows(k) == { y \in (-MaxHeight)..MaxHeight : output[k].start_y <= y /\ y < output[k].end_y }

\* The rows y with -H/2 <= y < H/2.
CanvasRows(height) == { y \in (-MaxHeight)..MaxHeight : -height <= 2 * y /\ 2 * y < height }

\* C11: for every thread count N and canvas height H the bands are
\* contiguous, pairwise disjoint and cover exactly the rows
\* -H/2 <= y < H/2; bands 0..N-2 have height floor(H/N) and the last band
\* has height H - (N-1)*floor(H/N).
C11_BandsPartitionRows ==
    BandsDone =>
        LET n == input.num_threads
            h == input.height
        IN  /\ \A k \in 1..(n - 1) : output[k].end_y = output[k + 1].start_y
            /\ \A k, l \in 1..n : k # l => BandRows(k) \cap BandRows(l) = {}
            /\ UNION { BandRows(k) : k \in 1..n } = CanvasRows(h)
            /\ \A k \in 1..(n - 1) : output[k].end_y - output[k].start_y = h \div n
            /\ output[n].end_y - output[n].start_y = h - (n - 1) * (h \div n)

\* The same for the canvases of even height.
C11_EvenHeightBands ==
    (BandsDone /\ input.height % 2 = 0) => C11_BandsPartitionRows

\* ------------------------------------------------------------------------
\* IntersectRaySphere on its own
\* ------------------------------------------------------------------------
\* Ray origins: the world origin, the camera, a point on the first sphere
\* of the scene and a point inside it.
RayOrigins == { Vec(0, 0, 0), CAMERA_POSITION, <<0, -1000, 2000>>, <<0, -1000, 3500>> }

\* Non-zero ray directions, not all of unit length.
RayDirections ==
    { <<0, 0, ONE>>, <<0, 0, -ONE>>, <<0, -250, ONE>>, <<-707, 0, 707>>,
      <<-1000, 0, 500>>, <<500, 0, ONE>>, <<0, 2000, 0>>, <<-500, -125, 500>>,
      <<300, 400, -1200>> }

RaySpheres ==
    { SPHERES[1], SPHERES[2], SPHERES[3], NearSpheres[4],
      MkSphere(<<0, 1500, 0>>, 2500, Rgb(0, 0, 0), 0, 0) }

\* A caller is about to intersect a ray with a sphere.
InitIntersect ==
    /\ TraceIdle
    /\ RenderIdle
    /\ input \in [origin : RayOrigins, direction : RayDirections, sphere : RaySpheres]
    /\ local = <<>>
    /\ output = <<>>

\* The call of IntersectRaySphere.
Intersect ==
    /\ output = <<>>
    /\ output' = IntersectRaySphere(input.origin, input.direction, input.sphere)
    /\ UNCHANGED <<traceVars, renderVars, input, local>>

NextIntersect == Intersect

SpecIntersect == InitIntersect /\ [][NextIntersect]_vars

\* The discriminant k2^2 - 4*k1*k3 of the ray and the sphere.
Discriminant(origin, direction, sphere) ==
    LET oc == Subtract(origin, sphere.center)
        k1 == DotProduct(direction, direction)
        k2 == 2 * DotProduct(oc, direction)
        k3 == DotProduct(oc, oc) - FMul(sphere.radius, sphere.radius)
    IN  FMul(k2, k2) - 4 * FMul(k1, k3)

\* |origin + t*direction - center|^2 - radius^2.
SphereResidual(origin, direction, sphere, t) ==
    LET p == Add(origin, Multiply(t, direction))
        pc == Subtract(p, sphere.center)
    IN  DotProduct(pc, pc) - FMul(sphere.radius, sphere.radius)

Abs(v) == IF v < 0 THEN -v ELSE v

Intersected == input # <<>> /\ output # <<>>

\* The tolerance of the sphere equation at a computed root, in units of
\* 1/ONE.
RootTolerance == 25

\* (-k2 + sign*sqrt(disc)) / (2*k1) for sign = 1 or -1.
QuadraticRoot(origin, direction, sphere, sign) ==
    LET oc == Subtract(origin, sphere.center)
        k1 == DotProduct(direction, direction)
        k2 == 2 * DotProduct(oc, direction)
    IN  FDiv((-k2) + sign * FSqrt(Discriminant(origin, direction, sphere)), 2 * k1)

\* C15: for a non-zero direction IntersectRaySphere returns
\* (INFINITY, INFINITY) exactly when the discriminant k2^2 - 4*k1*k3 is
\* negative; otherwise it returns the '+' root first and the '-' root
\* second, and each returned t puts origin + t*direction on the sphere.
C15_IntersectRoots ==
    Intersected =>
        LET o == input.origin
            d == input.direction
            s == input.sphere
        IN  /\ (output = <<INFINITY, INFINITY>>) <=> (Discriminant(o, d, s) < 0)
            /\ Discriminant(o, d, s) >= 0 =>
                  /\ output = <<QuadraticRoot(o, d, s, 1), QuadraticRoot(o, d, s, -1)>>
                  /\ output[1] >= output[2]
                  /\ Abs(SphereResidual(o, d, s, output[1])) <= RootTolerance
                  /\ Abs(SphereResidual(o, d, s, output[2])) <= RootTolerance

\* Two distinct real roots, one behind and one ahead of the origin, along a
\* direction that is not of unit length.
C15_Witness ==
    /\ Intersected
    /\ output[2] < 0 /\ 0 < output[1] /\ output[1] < INFINITY
    /\ DotProduct(input.direction, input.direction) # ONE

\* A ray that misses the sphere.
C15_WitnessMiss ==
    /\ Intersected
    /\ output = <<INFINITY, INFINITY>>
    /\ Discriminant(input.origin, input.direction, input.sphere) < 0

\* ------------------------------------------------------------------------
\* ComputeLighting on its own
\* ------------------------------------------------------------------------
\* The lit sphere (sphere 1 of every list below) and the spheres around
\* the ray from its point (0, 0, 2) towards the world origin: one beyond
\* the origin, one between the point and the origin, one behind the lit
\* sphere.
LitSphere == MkSphere(Vec(0, 0, 3), ONE, Rgb(255, 255, 255), 10, 0)

BeyondSphere == MkSphere(Vec(0, 0, -2), 500, Rgb(0, 0, 0), 0, 0)

BetweenSphere == MkSphere(Vec(0, 0, 1), 250, Rgb(0, 0, 0), 0, 0)

BehindSphere == MkSphere(Vec(0, 0, 5), 500, Rgb(0, 0, 0), 0, 0)

LightingSpheres ==
    { <<LitSphere>>, <<LitSphere, BeyondSphere>>, <<LitSphere, BetweenSphere>>,
      <<LitSphere, BehindSphere>>, <<LitSphere, BehindSphere, BeyondSphere>> }

\* Points of the lit sphere with their unit normals.
LightingSurfaces ==
    { [point |-> <<0, 0, 2000>>, normal |-> <<0, 0, -ONE>>],
      [point |-> <<0, 1000, 3000>>, normal |-> <<0, ONE, 0>>] }

LightingViews == { <<0, 0, -ONE>>, <<0, ONE, -ONE>>, <<0, -500, 2000>> }

LightingExponents == { -2, -1, 0, 1, 10 }

LightingLights ==
    { << AmbientLight(200) >>,
      << AmbientLight(200), MkLight("POINT", 600, Vec(0, 0, 0)) >>,
      << AmbientLight(200), MkLight("DIRECTIONAL", 600, Vec(0, 0, -2)) >>,
      << MkLight("POINT", 600, Vec(0, 0, 0)), AmbientLight(100),
         MkLight("DIRECTIONAL", 300, Vec(0, 3, -1)), AmbientLight(150) >>,
      << MkLight("DIRECTIONAL", 400, Vec(0, 0, 1)), MkLight("POINT", 500, Vec(0, 3, 6)) >> }

NoVector == <<0, 0, 0>>

\* A caller is about to compute the lighting of a point.
InitLighting ==
    /\ TraceIdle
    /\ RenderIdle
    /\ \E surface \in LightingSurfaces :
         input \in [point : {surface.point}, normal : {surface.normal},
                    view : LightingViews, lights : LightingLights,
                    spheres : LightingSpheres, specular : LightingExponents,
                    sphere_tag : {NULLPTR, 1}]
    /\ local = [i |-> 1, intensity |-> 0, ltype |-> "NONE", vec_l |-> NoVector,
                t_max |-> 0, is_shadow |-> FALSE, added |-> 0]
    /\ output = <<>>

\* One iteration of the loop over the lights; vec_l, t_max and is_shadow
\* are the locals the iteration leaves, added the amount it added.
LightIter ==
    /\ output = <<>>
    /\ local.i <= Len(input.lights)
    /\ LET light == input.lights[local.i]
           vec_l == LightVector(light, input.point)
           t_max == LightTMax(light)
           intensity == LightStep(local.intensity, light, input.point, input.normal,
                                  input.view, input.spheres, input.specular,
                                  input.sphere_tag)
       IN  local' =
             IF light.ltype = "AMBIENT"
             THEN [i |-> local.i + 1, intensity |-> intensity, ltype |-> light.ltype,
                   vec_l |-> NoVector, t_max |-> 0, is_shadow |-> FALSE,
                   added |-> intensity - local.intensity]
             ELSE [i |-> local.i + 1, intensity |-> intensity, ltype |-> light.ltype,
                   vec_l |-> vec_l, t_max |-> t_max,
                   is_shadow |-> IsShadow(input.point, vec_l, t_max, input.spheres,
                                          input.sphere_tag),
                   added |-> intensity - local.intensity]
    /\ UNCHANGED <<traceVars, renderVars, input, output>>

\* return intensity;
LightReturn ==
    /\ output = <<>>
    /\ local.i > Len(input.lights)
    /\ output' = <<local.intensity>>
    /\ UNCHANGED <<traceVars, renderVars, input, local>>

NextLighting == LightIter \/ LightReturn

SpecLighting == InitLighting /\ [][NextLighting]_vars

LightingRuns == input # <<>> /\ "lights" \in DOMAIN input

\* intensity * (N.L) / (|N| |L|) when N.L > 0.
DiffuseTerm(light, vec_l) ==
    LET n_dot_l == DotProduct(input.normal, vec_l)
    IN  IF n_dot_l > 0
        THEN FDiv(FMul(light.intensity, n_dot_l), FMul(Length(input.normal), Length(vec_l)))
        ELSE 0

\* What light k adds without a specular term.
AmbientDiffuseTerm(k) ==
    LET light == input.lights[k]
        vec_l == LightVector(light, input.point)
    IN  IF light.ltype = "AMBIENT" THEN light.intensity
        ELSE IF IsShadow(input.point, vec_l, LightTMax(light), input.spheres, input.sphere_tag)
             THEN 0
        ELSE DiffuseTerm(light, vec_l)

RECURSIVE AmbientDiffuseSum(_)
AmbientDiffuseSum(k) == IF k = 0 THEN 0 ELSE AmbientDiffuseSum(k - 1) + AmbientDiffuseTerm(k)

\* C17: a specular term is added only if specular >= 0: for a negative
\* specular exponent the intensity accumulated after each light, and the
\* intensity returned, is the sum of the ambient and diffuse terms only,
\* for every light list and view direction.
C17_NegativeExponentNoSpecular ==
    (LightingRuns /\ input.specular < 0) =>
        /\ local.intensity = AmbientDiffuseSum(local.i - 1)
        /\ output # <<>> => output[1] = AmbientDiffuseSum(Len(input.lights))

\* A call with exponent -2 has returned although one of its lights is
\* unshadowed, lights the surface and is reflected towards the viewer (it
\* has a specular term for the exponent 1).
C17_Witness ==
    /\ LightingRuns
    /\ input.specular = -2
    /\ output # <<>>
    /\ \E k \in 1..Len(input.lights) :
          LET light == input.lights[k]
              vec_l == LightVector(light, input.point)
          IN  /\ light.ltype # "AMBIENT"
              /\ ~IsShadow(input.point, vec_l, LightTMax(light), input.spheres,
                           input.sphere_tag)
              /\ DiffuseTerm(light, vec_l) > 0
              /\ Specular(light, input.normal, input.view, vec_l, 1) > 0

RECURSIVE AmbientSum(_)
\* The sum of the intensities of the Ambient lights among the first k.
AmbientSum(k) ==
    IF k = 0 THEN 0
    ELSE AmbientSum(k - 1)
         + (IF input.lights[k].ltype = "AMBIENT" THEN input.lights[k].intensity ELSE 0)

\* C18: with non-negative light intensities every iteration of the loop
\* over the lights adds a non-negative amount (diffuse and specular terms
\* are added only under n_dot_l > 0 and r_dot_v > 0), so the accumulated
\* and the returned intensity is never negative and never below the sum
\* of the Ambient intensities.
C18_AtLeastAmbient ==
    (LightingRuns /\ \A k \in 1..Len(input.lights) : input.lights[k].intensity >= 0) =>
        /\ local.added >= 0
        /\ local.intensity >= AmbientSum(local.i - 1)
        /\ AmbientSum(local.i - 1) >= 0
        /\ output # <<>> =>
              /\ output[1] >= AmbientSum(Len(input.lights))
              /\ output[1] >= 0

\* A call has returned whose lights include an Ambient one and an
\* unshadowed light behind the surface (n_dot_l < 0), which added nothing.
C18_Witness ==
    /\ LightingRuns
    /\ output # <<>>
    /\ AmbientSum(Len(input.lights)) > 0
    /\ \E k \in 1..Len(input.lights) :
          LET light == input.lights[k]
              vec_l == LightVector(light, input.point)
          IN  /\ light.ltype # "AMBIENT"
              /\ ~IsShadow(input.point, vec_l, LightTMax(light), input.spheres,
                           input.sphere_tag)
              /\ DotProduct(input.normal, vec_l) < 0

\* The light of the iteration just finished.
LastLight == input.lights[local.i - 1]

\* The roots of the non-excluded spheres along the ray (point, vec_l).
OccluderRoots(vec_l) ==
    UNION { { IntersectRaySphere(input.point, vec_l, input.spheres[j])[1],
              IntersectRaySphere(input.point, vec_l, input.spheres[j])[2] } :
            j \in { k \in 1..Len(input.spheres) : k # input.sphere_tag } }

\* C19: the shadow test of a Point light uses L = light.position - point
\* and tMax = 1, that of a Directional light L = light direction and
\* tMax = +infinity; the light is shadowed exactly when a non-excluded
\* sphere has a root strictly between EPSILON and tMax along (point, L):
\* roots >= 1 or <= EPSILON never shadow a Point light, any root > EPSILON
\* shadows a Directional light.
C19_ShadowRange ==
    (LightingRuns /\ local.ltype \in {"POINT", "DIRECTIONAL"}) =>
        LET l == IF local.ltype = "POINT"
                 THEN <<LastLight.position[1] - input.point[1],
                        LastLight.position[2] - input.point[2],
                        LastLight.position[3] - input.point[3]>>
                 ELSE LastLight.position
            roots == OccluderRoots(l)
        IN  /\ local.vec_l = l
            /\ local.ltype = "POINT" =>
                  /\ local.t_max = ONE
                  /\ local.is_shadow <=> \E t \in roots : EPSILON < t /\ t < ONE
                  /\ (\A t \in roots : t >= ONE \/ t <= EPSILON) => ~local.is_shadow
            /\ local.ltype = "DIRECTIONAL" =>
                  /\ local.t_max = INFINITY
                  /\ (\E t \in roots : EPSILON < t /\ t < INFINITY) <=> local.is_shadow
            /\ local.is_shadow => local.added = 0

\* A Point light was found unshadowed although a sphere lies on its shadow
\* ray beyond the light (a root >= 1), and it lit the surface.
C19_Witness ==
    /\ LightingRuns
    /\ local.ltype = "POINT"
    /\ ~local.is_shadow
    /\ local.added > 0
    /\ \E t \in OccluderRoots(local.vec_l) : ONE <= t /\ t < INFINITY

\* A Directional light was found shadowed by a sphere whose roots are all
\* beyond 1.
C19_WitnessDirectional ==
    /\ LightingRuns
    /\ local.ltype = "DIRECTIONAL"
    /\ local.is_shadow
    /\ \A t \in OccluderRoots(local.vec_l) : t <= EPSILON \/ t >= ONE

\* ------------------------------------------------------------------------
\* Clamp on its own
\* ------------------------------------------------------------------------
\* Values of an unsigned channel: in range, at and around the limit, and
\* far beyond it.
ChannelValues == { 0, 1, 128, 254, 255, 256, 300, 65536, 2147483647 }

\* A caller is about to clamp a color.
InitClamp ==
    /\ TraceIdle
    /\ RenderIdle
    /\ input \in [b : ChannelValues, g : ChannelValues, r : ChannelValues]
    /\ local = <<>>
    /\ output = <<>>

\* Clamp(c): output is its result.
ClampCall ==
    /\ output = <<>>
    /\ output' = Clamp(input)
    /\ UNCHANGED <<traceVars, renderVars, input, local>>

\* Clamp applied to the result of the first call: local is its result.
ClampAgain ==
    /\ output # <<>>
    /\ local = <<>>
    /\ local' = Clamp(output)
    /\ UNCHANGED <<traceVars, renderVars, input, output>>

NextClamp == ClampCall \/ ClampAgain

SpecClamp == InitClamp /\ [][NextClamp]_vars

ClampRuns == input # <<>> /\ DOMAIN input = {"b", "g", "r"}

\* C21: Clamp maps every channel c to min(255, max(0, c)): the result has
\* all channels in [0, 255], a color already in range is returned as it
\* is, and clamping the result again changes nothing, for every unsigned
\* channel value.
C21_ClampIdempotent ==
    (ClampRuns /\ output # <<>>) =>
        /\ \A ch \in {"b", "g", "r"} :
              /\ output[ch] \in 0..255
              /\ output[ch] = (IF input[ch] > 255 THEN 255 ELSE input[ch])
        /\ (\A ch \in {"b", "g", "r"} : input[ch] \in 0..255) => output = input
        /\ local # <<>> => local = output

\* A color with one channel in range, one at 256 and one far beyond has
\* been clamped twice.
C21_Witness ==
    /\ ClampRuns
    /\ local # <<>>
    /\ input.b = 128 /\ input.g = 256 /\ input.r = 2147483647
    /\ output = [b |-> 128, g |-> 255, r |-> 255]
    /\ local = output

\* ------------------------------------------------------------------------
\* Order of the sphere collection
\* ------------------------------------------------------------------------
\* The orders of a collection of n spheres: position i holds sphere p[i].
Orders(n) == { p \in [1..n -> 1..n] : \A i, k \in 1..n : p[i] = p[k] => i = k }

Reordered(spheres, p) == [i \in 1..Len(spheres) |-> spheres[p[i]]]

\* The pointer to sphere k after the reordering.
PointerIn(p, k) == IF k = NULLPTR THEN NULLPTR ELSE CHOOSE i \in DOMAIN p : p[i] = k

\* Two in-range roots of different spheres along the ray of f are equal.
TiedRoots(f) ==
    \E h1 \in InRangeRoots(f) : \E h2 \in InRangeRoots(f) : h1[1] = h2[1] /\ h1[2] # h2[2]

\* The color TraceRay returns for args on the reordered collection.
ReorderedColor(p) ==
    TraceRay(args.origin, args.direction, args.min_t, args.max_t,
             Reordered(scene.spheres, p), scene.lights, args.depth, args.sphere_tag)

\* C22: reordering the sphere collection changes no shadow verdict, and it
\* changes the color TraceRay returns only when two in-range roots of
\* different spheres are equal in some invocation; among the spheres whose
\* roots tie at closest_t the first one of the collection is the one shaded.
C22_OrderOnlyBreaksTies ==
    /\ \A f \in LiveFrames \cup ReturnedFrames :
         (ScanDone(f) /\ f.closest_sphere # NULLPTR) =>
             \A h \in InRangeRoots(f) : h[1] = f.closest_t => f.closest_sphere <= h[2]
    /\ result.done =>
         LET n == Len(scene.spheres)
         IN  /\ (\A f \in ReturnedFrames : ~TiedRoots(f)) =>
                   \A p \in Orders(n) : ReorderedColor(p) = result.color
             /\ \A f \in ReturnedFrames : f.lit =>
                   \A i \in 1..Len(scene.lights) :
                       scene.lights[i].ltype # "AMBIENT" =>
                           LET l == scene.lights[i]
                               point == PointOf(f)
                               vec_l == LightVector(l, point)
                           IN  \A p \in Orders(n) :
                                   IsShadow(point, vec_l, LightTMax(l),
                                            Reordered(scene.spheres, p),
                                            PointerIn(p, f.closest_sphere))
                                   = IsShadow(point, vec_l, LightTMax(l), scene.spheres,
                                              f.closest_sphere)

\* The primary ray grazes two spheres at the same closest_t: the first one
\* is shaded, and with the two exchanged the color is another one.
C22_Witness ==
    /\ result.done
    /\ \E e \in Entries :
         /\ e.level = 1
         /\ e.frame.lit
         /\ \E h \in InRangeRoots(e.frame) :
               /\ h[1] = e.frame.closest_t
               /\ h[2] > e.frame.closest_sphere
    /\ \E p \in Orders(Len(scene.spheres)) : ReorderedColor(p) # result.color

\* A ray with in-range roots on several spheres, no two of them equal, that
\* was shaded, reflected and shadow-tested.
C22_WitnessNoTie ==
    /\ result.done
    /\ Len(returned) > 1
    /\ \A f \in ReturnedFrames : ~TiedRoots(f)
    /\ \E f \in ReturnedFrames :
         /\ f.lit
         /\ Cardinality({ h[2] : h \in InRangeRoots(f) }) > 1
         /\ \E i \in 1..Len(scene.lights) :
               /\ scene.lights[i].ltype # "AMBIENT"
               /\ IsShadow(PointOf(f), LightVector(scene.lights[i], PointOf(f)),
                           LightTMax(scene.lights[i]), scene.spheres, f.closest_sphere)

\* ------------------------------------------------------------------------
\* The miss sentinel
\* ------------------------------------------------------------------------
\* What IntersectRaySphere returns when the discriminant is negative.
MissSentinel == <<INFINITY, INFINITY>>

\* The spheres other than the excluded one that the ray misses.
MissedSpheres(origin, direction, sphere_tag) ==
    { j \in (1..Len(scene.spheres)) \ {sphere_tag} :
        IntersectRaySphere(origin, direction, scene.spheres[j]) = MissSentinel }

DirectionalLights ==
    { scene.lights[i] : i \in { k \in 1..Len(scene.lights) :
                                  scene.lights[k].ltype = "DIRECTIONAL" } }

\* C23: the miss sentinel (INFINITY, INFINITY) is never taken for a hit or
\* for an occluder, also under an infinite upper bound: no invocation of
\* TraceRay, with max_t = INFINITY included, records a sphere whose roots
\* are the sentinel, and the shadow test of a DIRECTIONAL light
\* (t_max = INFINITY) is true only by a root of a sphere that the shadow ray
\* does not miss.
C23_SentinelNeverHit ==
    /\ \A f \in LiveFrames \cup ReturnedFrames :
         /\ f.closest_sphere \notin MissedSpheres(f.origin, f.direction, f.sphere_tag)
         /\ f.closest_sphere # NULLPTR => f.closest_t < INFINITY
    /\ \A f \in LitFrames : \A l \in DirectionalLights :
         LET point == PointOf(f)
             vec_l == LightVector(l, point)
         IN  IsShadow(point, vec_l, LightTMax(l), scene.spheres, f.closest_sphere)
             <=> \E j \in OtherSpheres(f) \ MissedSpheres(point, vec_l, f.closest_sphere) :
                     \E k \in 1..2 :
                         EPSILON < IntersectRaySphere(point, vec_l, scene.spheres[j])[k]

\* A ray traced with max_t = INFINITY that misses a sphere it has scanned
\* and hits another, lit by a DIRECTIONAL light whose shadow ray misses
\* every other sphere: the light is not shadowed.
C23_Witness ==
    \E e \in Entries :
        LET f == e.frame
        IN  /\ f.max_t = INFINITY
            /\ f.lit
            /\ MissedSpheres(f.origin, f.direction, f.sphere_tag) # {}
            /\ \E l \in DirectionalLights :
                  /\ MissedSpheres(PointOf(f), LightVector(l, PointOf(f)), f.closest_sphere)
                         = OtherSpheres(f)
                  /\ OtherSpheres(f) # {}
                  /\ ~IsShadow(PointOf(f), LightVector(l, PointOf(f)), LightTMax(l),
                               scene.spheres, f.closest_sphere)

\* A ray traced with max_t = INFINITY that misses every sphere.
C23_WitnessAllMissed ==
    \E e \in Entries :
        /\ e.frame.max_t = INFINITY
        /\ MissedSpheres(e.frame.origin, e.frame.direction, e.frame.sphere_tag)
               = (1..Len(scene.spheres)) \ {e.frame.sphere_tag}
        /\ e.frame.closest_sphere = NULLPTR
        /\ e.ret = BACKGROUND_COLOR

\* ------------------------------------------------------------------------
\* The chain of nested invocations
\* ------------------------------------------------------------------------
\* returned[i] is the invocation made by returned[i + 1].
CalledBy(i) == i < Len(returned) /\ returned[i + 1].level = returned[i].level - 1

\* C24: in the chain of nested invocations of TraceRay for one primary ray
\* the sphere hit at one level is never the sphere hit at the next level;
\* in a scene of exactly one sphere every reflected ray returns the
\* background color.
C24_NextLevelHitsAnother ==
    /\ \A i \in 1..(Len(stack) - 1) :
         /\ stack[i].closest_sphere # NULLPTR
         /\ stack[i + 1].closest_sphere # stack[i].closest_sphere
    /\ \A i \in 1..Len(returned) :
         /\ CalledBy(i) =>
               /\ returned[i + 1].frame.closest_sphere # NULLPTR
               /\ returned[i].frame.closest_sphere # returned[i + 1].frame.closest_sphere
         /\ (returned[i].level = Len(stack) + 1 /\ stack # <<>>) =>
               returned[i].frame.closest_sphere # Top.closest_sphere
    /\ Len(scene.spheres) = 1 =>
         /\ \A e \in Entries : e.level > 1 => e.ret = BACKGROUND_COLOR
         /\ \A i \in 2..Len(stack) : stack[i].closest_sphere = NULLPTR

\* A reflected ray that has an in-range root on the sphere its caller hit,
\* and hit another sphere.
C24_Witness ==
    \E i \in 1..Len(returned) :
        /\ CalledBy(i)
        /\ returned[i].frame.closest_sphere # NULLPTR
        /\ LET f == returned[i].frame
           IN  \E h \in InRangeRoots([f EXCEPT !.sphere_tag = NULLPTR]) :
                   /\ h[2] = returned[i + 1].frame.closest_sphere
                   /\ h[1] < f.closest_t

\* A chain of three invocations that hit a sphere, another one, and the
\* first one again.
C24_WitnessChain ==
    /\ result.done
    /\ Len(returned) = 3
    /\ returned[3].frame.closest_sphere # NULLPTR
    /\ returned[2].frame.closest_sphere # NULLPTR
    /\ returned[1].frame.closest_sphere = returned[3].frame.closest_sphere

\* The reflected ray of the only sphere of a scene has returned the
\* background color.
C24_WitnessOneSphere ==
    /\ result.done
    /\ Len(scene.spheres) = 1
    /\ \E e \in Entries : e.level = 2 /\ e.ret = BACKGROUND_COLOR

\* ------------------------------------------------------------------------
\* Number of invocations for one primary ray
\* ------------------------------------------------------------------------
\* The invocations of TraceRay made so far, and those among them that have
\* called ComputeLighting.
Invocations == Len(stack) + Len(returned)

LightingCalls ==
    Cardinality({ i \in 1..Len(stack) : stack[i].lit })
    + Cardinality({ i \in 1..Len(returned) : returned[i].frame.lit })

\* C25: for one primary ray traced with depth D >= 0, TraceRay is invoked
\* at most D + 1 times and ComputeLighting at most D + 1 times; every
\* invocation makes at most one recursive call, so the invocations form one
\* chain with one invocation per level and never a tree.
C25_SingleChain ==
    /\ args.depth >= 0
    /\ Invocations <= args.depth + 1
    /\ LightingCalls <= args.depth + 1
    /\ \A i \in 1..Len(returned) :
         /\ returned[i].level > Len(stack)
         /\ \A k \in 1..Len(returned) : returned[i].level = returned[k].level => i = k
    /\ \A i \in 1..(Len(stack) - 1) : stack[i].pc = "wait"

\* The primary ray of the deepest configured depth has made MaxDepth + 1
\* invocations, one per level, each of which called ComputeLighting.
C25_Witness ==
    /\ result.done
    /\ args.depth = MaxDepth
    /\ Invocations = MaxDepth + 1
    /\ LightingCalls = MaxDepth + 1
    /\ \A i \in 1..Len(returned) : returned[i].level = Len(returned) + 1 - i

\* With depth 0 a ray that hits a reflective sphere makes one invocation.
C25_WitnessDepthZero ==
    /\ result.done
    /\ args.depth = 0
    /\ Invocations = 1
    /\ LightingCalls = 1
    /\ scene.spheres[returned[1].frame.closest_sphere].reflective > 0

\* ------------------------------------------------------------------------
\* PutPixel on its own
\* ------------------------------------------------------------------------
\* Canvas coordinates inside the canvas and up to a canvas size outside it.
PutPixelCoords ==
    [x : (-CANVAS_WIDTH)..CANVAS_WIDTH, y : (-CANVAS_HEIGHT)..CANVAS_HEIGHT]

PutPixelColors == { Rgb(0, 255, 0), Rgb(255, 255, 255) }

\* A caller is about to put a pixel at p and then one at q on the cleared
\* canvas.
InitPutPixel ==
    /\ TraceIdle
    /\ RenderIdle
    /\ input \in [p : PutPixelCoords, q : PutPixelCoords, color : PutPixelColors]
    /\ local = <<>>
    /\ output = <<>>

\* One call of PutPixel: local logs the offset of the call (-1 when the
\* pixel is dropped), output the buffer the call leaves.
PutPixelAt(c) ==
    /\ canvasBuffer' = PutPixel(canvasBuffer, c.x, c.y, input.color)
    /\ local' = Append(local, PutPixelOffset(c.x, c.y))
    /\ output' = Append(output, canvasBuffer')
    /\ UNCHANGED <<traceVars, num_threads, mainPc, main_i, threads, writtenBy, screen,
                   primaryRays, putPixels, input>>

PutPixelFirst == Len(local) = 0 /\ PutPixelAt(input.p)

PutPixelSecond == Len(local) = 1 /\ PutPixelAt(input.q)

NextPutPixel == PutPixelFirst \/ PutPixelSecond

SpecPutPixel == InitPutPixel /\ [][NextPutPixel]_vars

PutPixelRuns == input # <<>> /\ DOMAIN input = {"p", "q", "color"}

\* The cells in which two buffers differ.
ChangedCells(before, after) == { c \in BufferCells : before[c] # after[c] }

\* (x, y) is on the canvas: column and row are inside it.
OnCanvas(c) ==
    /\ CANVAS_WIDTH \div 2 + c.x \in 0..(CANVAS_WIDTH - 1)
    /\ CANVAS_HEIGHT \div 2 - c.y \in 0..(CANVAS_HEIGHT - 1)

CellOf(c) == CANVAS_WIDTH \div 2 + c.x + CANVAS_WIDTH * (CANVAS_HEIGHT \div 2 - c.y)

\* The coordinate, the buffer before and the buffer after call k.
CallCoord(k) == IF k = 1 THEN input.p ELSE input.q

BufferBefore(k) == IF k = 1 THEN EmptyBuffer ELSE output[k - 1]

C26_WitnessDropped ==
    /\ PutPixelRuns
    /\ Len(local) = 2
    /\ OnCanvas(input.p)
    /\ input.q = [x |-> input.p.x + 1, y |-> input.p.y]
    /\ ~OnCanvas(input.q)
    /\ local[2] = -1
    /\ canvasBuffer = output[1]

\* ------------------------------------------------------------------------
\* Specular term and diffuse guard
\* ------------------------------------------------------------------------
\* R.V for the light vector vec_l at the lit point.
RDotV(vec_l) == DotProduct(ReflectRayDirection(vec_l, input.normal), input.view)

\* intensity * (R.V / (|R| |V|)) ^ specular when specular >= 0 and R.V > 0.
SpecularTerm(light, vec_l) ==
    LET vec_r == ReflectRayDirection(vec_l, input.normal)
    IN  IF input.specular >= 0 /\ RDotV(vec_l) > 0
        THEN FMul(light.intensity,
                  FPow(FDiv(RDotV(vec_l), FMul(Length(vec_r), Length(input.view))),
                       input.specular))
        ELSE 0

\* The iteration just finished was for a light that is not shadowed.
UnshadowedIteration ==
    /\ LightingRuns
    /\ local.i > 1
    /\ local.ltype # "AMBIENT"
    /\ ~local.is_shadow

\* C27: the specular term of an unoccluded light does not depend on the
\* diffuse guard: the iteration adds the diffuse term (only if N.L > 0)
\* plus the specular term (only if specular >= 0 and R.V > 0), so a light
\* with N.L <= 0 adds no diffuse term and still adds its specular term.
C27_SpecularWithoutDiffuse ==
    UnshadowedIteration =>
        /\ local.added = DiffuseTerm(LastLight, local.vec_l) + SpecularTerm(LastLight, local.vec_l)
        /\ DotProduct(input.normal, local.vec_l) <= 0 =>
              /\ DiffuseTerm(LastLight, local.vec_l) = 0
              /\ local.added = SpecularTerm(LastLight, local.vec_l)

\* An unshadowed light behind the surface (N.L < 0) whose reflection points
\* to the viewer has added a positive specular term and nothing else.
C27_Witness ==
    /\ UnshadowedIteration
    /\ DotProduct(input.normal, local.vec_l) < 0
    /\ input.specular > 0
    /\ RDotV(local.vec_l) > 0
    /\ local.added > 0
    /\ local.added = SpecularTerm(LastLight, local.vec_l)

\* ------------------------------------------------------------------------
\* Rasterizer: Interpolate and DrawLine
\* ------------------------------------------------------------------------
\* The float of an int, in the fixed-point form.
ToFloat(n) == n * ONE

\* static_cast<int> of a float: truncated toward zero.
ToIntTruncated(f) == IF f >= 0 THEN f \div ONE ELSE -((-f) \div ONE)

\* The float that is no number; it is apart from every other float.
NotANumber == INFINITY + 1

\* float n divided by the int d: a signed infinity or no number when d is 0.
FloatQuotient(n, d) ==
    IF d = 0
    THEN IF n > 0 THEN INFINITY ELSE IF n < 0 THEN -INFINITY ELSE NotANumber
    ELSE IF (n >= 0) = (d > 0) THEN Abs(n) \div Abs(d) ELSE -(Abs(n) \div Abs(d))

\* d += a.
FloatSum(d, a) ==
    IF d = NotANumber \/ a = NotANumber THEN NotANumber
    ELSE IF Abs(a) = INFINITY THEN (IF d = -a THEN NotANumber ELSE a)
    ELSE IF Abs(d) = INFINITY THEN d
    ELSE d + a

RECURSIVE InterpolateLoop(_, _, _, _, _)
\* for (int i = i0; i <= i1; i++) { ds.push_back(d); d += a; }
InterpolateLoop(i, i1, d, a, ds) ==
    IF i > i1 THEN ds
    ELSE InterpolateLoop(i + 1, i1, FloatSum(d, a), a, Append(ds, d))

\* ds after Interpolate(i0, d0, i1, d1, ds): the push of the case i0 == i1
\* is followed by the loop.
Interpolate(i0, d0, i1, d1, ds) ==
    LET pushed == IF i0 = i1 THEN Append(ds, ToFloat(d0)) ELSE ds
        a == FloatQuotient(ToFloat(d1 - d0), i1 - i0)
    IN  InterpolateLoop(i0, i1, ToFloat(d0), a, pushed)

\* The canvas coordinates of the loops that fill the background.
RasterXs == (-IntDiv(CANVAS_WIDTH, 2))..(IntDiv(CANVAS_WIDTH, 2) - 1)

RasterYs == (-IntDiv(CANVAS_HEIGHT, 2))..(IntDiv(CANVAS_HEIGHT, 2) - 1)

RasterPoints == [x : RasterXs, y : RasterYs]

LineColor == Rgb(1, 1, 1)

\* What a read outside a vector's elements may yield.
StrayFloats == { ToFloat(-1), ToFloat(1) }

\* A caller is about to draw the line from p0 to p1; local holds the
\* caller's point objects, which DrawLine writes through const_cast.
InitLine ==
    /\ TraceIdle
    /\ RenderIdle
    /\ input \in [p0 : RasterPoints, p1 : RasterPoints]
    /\ local = [pc |-> "orient", p0 |-> input.p0, p1 |-> input.p1, horizontal |-> FALSE,
                ds |-> <<>>, i |-> 0, reads |-> <<>>]
    /\ output = <<>>

LineAt(pc) == output = <<>> /\ "horizontal" \in DOMAIN local /\ local.pc = pc

\* dx, dy, the choice of the branch and its swap of the end points.
LineOrient ==
    /\ LineAt("orient")
    /\ LET dx == local.p1.x - local.p0.x
           dy == local.p1.y - local.p0.y
           horizontal == Abs(dx) > Abs(dy)
           swapped == IF horizontal THEN dx < 0 ELSE dy < 0
       IN  local' = [local EXCEPT !.pc = "interpolate", !.horizontal = horizontal,
                                  !.p0 = IF swapped THEN local.p1 ELSE local.p0,
                                  !.p1 = IF swapped THEN local.p0 ELSE local.p1]
    /\ UNCHANGED <<traceVars, renderVars, input, output>>

\* The call of Interpolate of the branch.
LineInterpolate ==
    /\ LineAt("interpolate")
    /\ LET p0 == local.p0
           p1 == local.p1
       IN  local' = [local EXCEPT
                       !.pc = "put",
                       !.ds = IF local.horizontal
                              THEN Interpolate(p0.x, p0.y, p1.x, p1.y, <<>>)
                              ELSE Interpolate(p0.y, p0.x, p1.y, p1.x, <<>>),
                       !.i = IF local.horizontal THEN p0.x ELSE p0.y]
    /\ UNCHANGED <<traceVars, renderVars, input, output>>

\* One iteration of the drawing loop: a read of ds and a PutPixel. reads
\* logs the index read; a read outside ds yields a stray float.
LinePut ==
    /\ LineAt("put")
    /\ local.i <= (IF local.horizontal THEN local.p1.x ELSE local.p1.y)
    /\ LET k == local.i - (IF local.horizontal THEN local.p0.x ELSE local.p0.y)
       IN  \E stray \in StrayFloats :
             LET v == IF k < Len(local.ds) THEN local.ds[k + 1] ELSE stray
             IN  /\ k >= Len(local.ds) \/ stray = ToFloat(1)
                 /\ canvasBuffer' =
                      IF local.horizontal
                      THEN PutPixel(canvasBuffer, local.i, ToIntTruncated(v), LineColor)
                      ELSE PutPixel(canvasBuffer, ToIntTruncated(v), local.i, LineColor)
                 /\ local' = [local EXCEPT !.i = local.i + 1, !.reads = Append(local.reads, k)]
    /\ UNCHANGED <<traceVars, num_threads, mainPc, main_i, threads, writtenBy, screen,
                   primaryRays, putPixels, input, output>>

\* DrawLine returns.
LineReturn ==
    /\ LineAt("put")
    /\ local.i > (IF local.horizontal THEN local.p1.x ELSE local.p1.y)
    /\ output' = <<"returned">>
    /\ UNCHANGED <<traceVars, renderVars, input, local>>

NextLine == LineOrient \/ LineInterpolate \/ LinePut \/ LineReturn

SpecLine == InitLine /\ [][NextLine]_vars

LineRuns == input # <<>> /\ DOMAIN input = {"p0", "p1"}

\* The arguments i0, d0, i1 of the call of Interpolate DrawLine has made.
LineI0 == IF local.horizontal THEN local.p0.x ELSE local.p0.y

LineD0 == IF local.horizontal THEN local.p0.y ELSE local.p0.x

LineI1 == IF local.horizontal THEN local.p1.x ELSE local.p1.y

\* C30: Interpolate(i0, d0, i1, d1, ds) with i0 <= i1 appends exactly
\* i1 - i0 + 1 values to ds, the first equal to d0, also when i0 = i1,
\* where exactly one value is appended; every index DrawLine reads from ds
\* is within bounds.
C30_InterpolateCount ==
    (LineRuns /\ local.pc = "put") =>
        /\ LineI0 <= LineI1
        /\ Len(local.ds) = LineI1 - LineI0 + 1
        /\ local.ds[1] = ToFloat(LineD0)
        /\ \A n \in 1..Len(local.reads) : local.reads[n] \in 0..(Len(local.ds) - 1)

\* What holds of the code: between two different points (i0 < i1) the count
\* is i1 - i0 + 1; for one point (i0 = i1) two values d0 are appended; the
\* first value is d0 and every index read is within bounds in both cases.
C30_CountUnlessEqual ==
    (LineRuns /\ local.pc = "put") =>
        /\ LineI0 <= LineI1
        /\ Len(local.ds) = (IF LineI0 = LineI1 THEN 2 ELSE LineI1 - LineI0 + 1)
        /\ local.ds[1] = ToFloat(LineD0)
        /\ LineI0 = LineI1 => local.ds = <<ToFloat(LineD0), ToFloat(LineD0)>>
        /\ \A n \in 1..Len(local.reads) : local.reads[n] \in 0..(Len(local.ds) - 1)

\* The line from a point to itself has been drawn with two values in ds.
C30_WitnessEqual ==
    /\ LineRuns
    /\ output = <<"returned">>
    /\ input.p0 = input.p1
    /\ Len(local.ds) = 2
    /\ local.reads = <<0>>

\* ------------------------------------------------------------------------
\* Rasterizer: DrawFilledTriangle
\* ------------------------------------------------------------------------
TriangleColor == Rgb(0, 255, 0)

\* A caller is about to fill the triangle of its three point objects;
\* local.p0, p1, p2 are those objects, which the sort writes through
\* const_cast.
InitTriangle ==
    /\ TraceIdle
    /\ RenderIdle
    /\ input \in [p0 : RasterPoints, p1 : RasterPoints, p2 : RasterPoints]
    /\ local = [pc |-> "sort01", p0 |-> input.p0, p1 |-> input.p1, p2 |-> input.p2,
                x01 |-> <<>>, x12 |-> <<>>, x02 |-> <<>>, m |-> 0,
                x_left |-> "none", x_right |-> "none", y |-> 0, reads |-> <<>>]
    /\ output = <<>>

TriangleAt(pc) == output = <<>> /\ "x02" \in DOMAIN local /\ local.pc = pc

\* if (p1.y < p0.y) swap p0 and p1.
SwapP0P1 ==
    /\ TriangleAt("sort01")
    /\ local' = IF local.p1.y < local.p0.y
                THEN [local EXCEPT !.pc = "sort02", !.p0 = local.p1, !.p1 = local.p0]
                ELSE [local EXCEPT !.pc = "sort02"]
    /\ UNCHANGED <<traceVars, renderVars, input, output>>

\* The second swap left out.
SwapP0P2_Skipped ==
    /\ TriangleAt("sort02")
    /\ local' = [local EXCEPT !.pc = "sort12"]
    /\ UNCHANGED <<traceVars, renderVars, input, output>>

\* if (p2.y < p0.y) swap p0 and p2.
SwapP0P2 ==
    /\ TriangleAt("sort02")
    /\ local' = IF local.p2.y < local.p0.y
                THEN [local EXCEPT !.pc = "sort12", !.p0 = local.p2, !.p2 = local.p0]
                ELSE [local EXCEPT !.pc = "sort12"]
    /\ UNCHANGED <<traceVars, renderVars, input, output>>

\* if (p2.y < p1.y) swap p1 and p2.
SwapP1P2 ==
    /\ TriangleAt("sort12")
    /\ local' = IF local.p2.y < local.p1.y
                THEN [local EXCEPT !.pc = "edges", !.p1 = local.p2, !.p2 = local.p1]
                ELSE [local EXCEPT !.pc = "edges"]
    /\ UNCHANGED <<traceVars, renderVars, input, output>>

\* The three calls of Interpolate; the third one appends to x01 and x02
\* stays empty.
ComputeEdges ==
    /\ TriangleAt("edges")
    /\ LET p0 == local.p0
           p1 == local.p1
           p2 == local.p2
           first == Interpolate(p0.y, p0.x, p1.y, p1.x, local.x01)
       IN  local' = [local EXCEPT
                       !.pc = "merge",
                       !.x12 = Interpolate(p1.y, p1.x, p2.y, p2.x, local.x12),
                       !.x01 = Interpolate(p0.y, p0.x, p2.y, p2.x, first)]
    /\ UNCHANGED <<traceVars, renderVars, input, output>>

\* x01.pop_back(); x01.insert(x01.end(), x12.begin(), x12.end());
MergeShortSides ==
    /\ TriangleAt("merge")
    /\ local' = [local EXCEPT !.pc = "sides",
                              !.x01 = SubSeq(local.x01, 1, Len(local.x01) - 1) \o local.x12]
    /\ UNCHANGED <<traceVars, renderVars, input, output>>

\* The vector a pointer x_left or x_right points to.
EdgeVector(name) == IF name = "x02" THEN local.x02 ELSE local.x01

\* m and the choice of x_left and x_right. A read outside the elements of
\* a vector is undefined: the call faults, or the read yields a stray
\* float.
ChooseSides ==
    /\ TriangleAt("sides")
    /\ LET m == Len(local.x02) \div 2
       IN  \E s02 \in StrayFloats : \E s01 \in StrayFloats :
             LET v02 == IF m < Len(local.x02) THEN local.x02[m + 1] ELSE s02
                 v01 == IF m < Len(local.x01) THEN local.x01[m + 1] ELSE s01
             IN  /\ m >= Len(local.x02) \/ s02 = ToFloat(1)
                 /\ m >= Len(local.x01) \/ s01 = ToFloat(1)
                 /\ \/ local' = [local EXCEPT
                                   !.pc = "draw", !.m = m, !.y = local.p0.y,
                                   !.reads = Append(local.reads, m),
                                   !.x_left = IF v02 < v01 THEN "x02" ELSE "x01",
                                   !.x_right = IF v02 < v01 THEN "x01" ELSE "x02"]
                    \/ /\ m >= Len(local.x02) \/ m >= Len(local.x01)
                       /\ local' = [local EXCEPT !.pc = "fault", !.m = m,
                                                 !.reads = Append(local.reads, m)]
    /\ UNCHANGED <<traceVars, renderVars, input, output>>

RECURSIVE PutSegment(_, _, _, _)
\* for (x = from; x <= to; x++) PutPixel(x, y, color);
PutSegment(buf, from, to, y) ==
    IF from > to THEN buf
    ELSE PutSegment(PutPixel(buf, from, y, TriangleColor), from + 1, to, y)

\* One horizontal segment: the reads of (*x_left)[y - p0.y] and
\* (*x_right)[y - p0.y] and the pixels between them.
DrawSegment ==
    /\ TriangleAt("draw")
    /\ local.y <= local.p2.y
    /\ LET k == local.y - local.p0.y
           left == EdgeVector(local.x_left)
           right == EdgeVector(local.x_right)
       IN  \E stray \in StrayFloats :
             LET from == IF k < Len(left) THEN left[k + 1] ELSE stray
                 to == IF k < Len(right) THEN right[k + 1] ELSE stray
             IN  /\ (k >= Len(left) \/ k >= Len(right)) \/ stray = ToFloat(1)
                 /\ \/ /\ canvasBuffer' = PutSegment(canvasBuffer, ToIntTruncated(from),
                                                     ToIntTruncated(to), local.y)
                       /\ local' = [local EXCEPT !.y = local.y + 1,
                                                 !.reads = Append(local.reads, k)]
                    \/ /\ k >= Len(left) \/ k >= Len(right)
                       /\ local' = [local EXCEPT !.pc = "fault",
                                                 !.reads = Append(local.reads, k)]
                       /\ UNCHANGED canvasBuffer
    /\ UNCHANGED <<traceVars, num_threads, mainPc, main_i, threads, writtenBy, screen,
                   primaryRays, putPixels, input, output>>

\* DrawFilledTriangle returns.
TriangleReturn ==
    /\ TriangleAt("draw")
    /\ local.y > local.p2.y
    /\ output' = <<"returned">>
    /\ UNCHANGED <<traceVars, renderVars, input, local>>

NextTriangle ==
    \/ SwapP0P1
    \/ SwapP0P2
    \/ SwapP1P2
    \/ ComputeEdges
    \/ MergeShortSides
    \/ ChooseSides
    \/ DrawSegment
    \/ TriangleReturn

SpecTriangle == InitTriangle /\ [][NextTriangle]_vars

TriangleRuns == input # <<>> /\ DOMAIN input = {"p0", "p1", "p2"}

\* The three swaps have been made.
Sorted == TriangleRuns /\ local.pc \notin {"sort01", "sort02", "sort12"}

\* The orders of three points.
PointOrders == { p \in [1..3 -> 1..3] : \A i, k \in 1..3 : p[i] = p[k] => i = k }

\* C28: DrawFilledTriangle sorts its three points from bottom to top: after
\* the three conditional swaps p0.y <= p1.y <= p2.y, and (p0, p1, p2), the
\* caller's point objects, is a permutation of the three points passed in.
C28_SortedBottomToTop ==
    Sorted =>
        /\ local.p0.y <= local.p1.y
        /\ local.p1.y <= local.p2.y
        /\ \E p \in PointOrders :
              LET passed == <<input.p0, input.p1, input.p2>>
              IN  <<local.p0, local.p1, local.p2>> = [i \in 1..3 |-> passed[p[i]]]

\* Three points passed top to bottom, with three different rows, have been
\* sorted: the first and the last are exchanged.
C28_Witness ==
    /\ Sorted
    /\ input.p0.y > input.p1.y
    /\ input.p1.y > input.p2.y
    /\ local.p0 = input.p2
    /\ local.p1 = input.p1
    /\ local.p2 = input.p0

\* Points for which the second and the third swap are both made.
C28_WitnessRotated ==
    /\ Sorted
    /\ input.p0.y <= input.p1.y
    /\ input.p2.y < input.p0.y
    /\ <<local.p0, local.p1, local.p2>> = <<input.p2, input.p0, input.p1>>

\* The rows of the triangle.
TriangleRows == local.p2.y - local.p0.y + 1

\* C29: in DrawFilledTriangle, after the edges are computed and the two
\* short sides merged, x02 and the merged x01 each hold exactly
\* p2.y - p0.y + 1 values, so that the reads x02[m], x01[m] and every index
\* y - p0.y read while the segments are drawn are within bounds.
C29_EdgeLengths ==
    (TriangleRuns /\ local.pc \in {"sides", "draw", "fault"}) =>
        /\ Len(local.x02) = TriangleRows
        /\ Len(local.x01) = TriangleRows
        /\ \A n \in 1..Len(local.reads) :
              local.reads[n] \in 0..(Len(local.x02) - 1) \cap 0..(Len(local.x01) - 1)
        /\ local.pc # "fault"

\* What holds of the code: x02 is empty when the sides are chosen, so the
\* read x02[m] with m = 0 is outside it, and x01 holds the values of all
\* three edges less one.
C29_LongEdgeEmpty ==
    (TriangleRuns /\ local.pc \in {"sides", "draw", "fault"}) =>
        /\ local.x02 = <<>>
        /\ Len(local.x01) > TriangleRows
        /\ local.reads # <<>> => local.reads[1] = 0 /\ local.reads[1] >= Len(local.x02)

\* The call has faulted at the read x02[m], and in another run it has
\* drawn from stray values and returned.
C29_WitnessFault ==
    /\ TriangleRuns
    /\ local.pc = "fault"
    /\ local.reads = <<0>>
    /\ input.p0.y < input.p1.y /\ input.p1.y < input.p2.y

C29_WitnessReturned ==
    /\ TriangleRuns
    /\ output = <<"returned">>
    /\ input.p0.y < input.p1.y /\ input.p1.y < input.p2.y

=============================================================================
